---- MODULE Spec2Model ----
(***************************************************************************)
(* A model of node-sqlite-orm: the tagged value codec (json.ts), the       *)
(* per-column serialize/deserialize and the row operations of SqliteOrm,   *)
(* and the schema reconciliation done at model registration (builder.ts).  *)
(*                                                                         *)
(* JavaScript values are records tagged by k.  Every kind keeps its        *)
(* payload in a field of its own, so that two values of different kinds    *)
(* never share a field.                                                    *)
(***************************************************************************)
EXTENDS Integers, Sequences, FiniteSets, TLC

\* ------------------------------------------------------------------ bounds
MaxArrLen == 2
MaxBufLen == 3
MaxMapLen == 2

\* ------------------------------------------------------------ JS values
Null == [k |-> "null"]
Undef == [k |-> "undefined"]
Bool(b) == [k |-> "boolean", b |-> b]
Num(n) == [k |-> "number", n |-> n]
NaN == [k |-> "number", nonfinite |-> "NaN"]
Infinity == [k |-> "number", nonfinite |-> "Infinity"]
\* 2 ** 53, the least integer past Number.MAX_SAFE_INTEGER
Pow53 == [k |-> "number", unsafe |-> "2**53"]
\* a finite number that is not an integer
Frac == [k |-> "number", frac |-> "1.5"]
Str(s) == [k |-> "string", s |-> s]
\* a string holding base64 text, kept as its sequence of sextets (64 is '=')
Str64(d) == [k |-> "string", b64 |-> d]
\* a string holding JSON text, kept as the tree the text denotes
StrJson(t) == [k |-> "string", json |-> t]
Fn == [k |-> "function"]
Sym == [k |-> "symbol"]
Big == [k |-> "bigint"]
Arr(items) == [k |-> "array", items |-> items]
Obj(props) == [k |-> "object", props |-> props]
MapV(entries) == [k |-> "Map", entries |-> entries]
Buf(bytes) == [k |-> "Buffer", bytes |-> bytes]
Inst(cls, props) == [k |-> "instance", cls |-> cls, props |-> props]
Throw(e) == [k |-> "throw", err |-> e]
NoValue == [k |-> "none"]

IsThrow(v) == v.k = "throw"
IsNullish(v) == v.k \in {"null", "undefined"}

typeof(v) ==
    IF v.k \in {"null", "array", "object", "Map", "Buffer", "instance"}
    THEN "object"
    ELSE v.k

EmptyProps == [x \in {} |-> Null]

\* the smallest index of s whose element is a throw, 0 when there is none
FirstThrow(s) ==
    IF \E i \in 1..Len(s) : IsThrow(s[i])
    THEN CHOOSE i \in 1..Len(s) : IsThrow(s[i]) /\ \A j \in 1..(i - 1) : ~IsThrow(s[j])
    ELSE 0

VARIABLES
    serializableClasses,  \* json.ts registry: sequence of [classRef, ignoredProps]
    input,                \* the value handed to the codec
    compatMode,           \* the compatMode flag of the decode
    encoded,              \* what jsonify returned, or the payload to decode
    decoded,              \* what dejsonify returned
    colType,              \* the column type of a per-column serialize, or "none"
    phase,                \* "start" | "encoded" | "received" | "decoded" | "stored" | "loaded"
    live,                 \* the database schema: table name -> table_info rows (<< >>: no table)
    models,               \* SqliteOrm.models: class name -> Model, or NoModel
    tempModelData,        \* SqliteOrm.tempModelData: the pending columns
    ignoredColumns,       \* SqliteOrm.ignoredColumns
    hasModelChanges,      \* SqliteOrm.hasModelChanges
    lastModels,           \* SqliteOrm.lastModels: the snapshot read at construction
    snapshot,             \* the <dbPath>.model.json file: class name -> Model, or NoModel
    backupTaken,          \* did the last modelsLoaded() make a model-changes backup
    applied,              \* class name -> the built model whose DDL last ran (history)
    evaluated,            \* the classes whose declaration this process has evaluated
    runs,                 \* the number of processes started on the database so far
    last,                 \* what the last registration was given, did and returned
    rows,                 \* the database content: table name -> sequence of [rowid, vals]
    objects,              \* the program's model objects: slot -> object, or NoValue
    hasChangesSinceBackup, \* SqliteOrm.hasChangesSinceBackup
    sinceBackup,          \* has a save or delete completed since the last copy (history)
    inserts,              \* slot -> the INSERT statements run for the object (history)
    done,                 \* what the last row operation was given, did and returned
    store,                \* the snapshot file of a model set, and what was read from it
    builder,              \* what the last call of a statement builder was given and returned
    backupDir,            \* the backup directory: the set of the names of its entries
    clock,                \* the system clock, in ticks
    pass                  \* what the last doBackup call was given and did

codecVars == <<serializableClasses, input, compatMode, encoded, decoded, colType, phase>>
ormVars == <<live, models, tempModelData, ignoredColumns, hasModelChanges, lastModels,
             snapshot, backupTaken, applied, evaluated, runs, last>>
rowVars == <<rows, objects, hasChangesSinceBackup, sinceBackup, inserts, done>>
backupVars == <<backupDir, clock, pass>>
auxVars == <<builder, store, backupVars>>
vars == <<codecVars, ormVars, rowVars, auxVars>>

\* --------------------------------------------------- user classes (inputs)
\* The classes a program may register.  ClassDefaults is what the class's
\* no-argument constructor sets (its field initialisers).
ClassNames == {"Foo", "Bar"}
ClassDefaults ==
    [Foo |-> [a |-> Num(0), secret |-> Str("init")],
     Bar |-> EmptyProps]
CustomTag == [Foo |-> "custom-Foo", Bar |-> "custom-Bar"]
IsCustomTag(s) == \E c \in ClassNames : CustomTag[c] = s
TagClass(s) == CHOOSE c \in ClassNames : CustomTag[c] = s

\* ---------------------------------------------------------------- base64
Pad == 64
RECURSIVE Base64(_)
Base64(b) ==
    IF Len(b) = 0 THEN << >>
    ELSE IF Len(b) = 1 THEN
        << b[1] \div 4, (b[1] % 4) * 16, Pad, Pad >>
    ELSE IF Len(b) = 2 THEN
        << b[1] \div 4, (b[1] % 4) * 16 + b[2] \div 16, (b[2] % 16) * 4, Pad >>
    ELSE
        << b[1] \div 4, (b[1] % 4) * 16 + b[2] \div 16,
           (b[2] % 16) * 4 + b[3] \div 64, b[3] % 64 >>
        \o Base64(SubSeq(b, 4, Len(b)))

RECURSIVE UnBase64(_)
UnBase64(d) ==
    IF Len(d) < 4 THEN << >>
    ELSE
        LET b1 == d[1] * 4 + d[2] \div 16
            b2 == (d[2] % 16) * 16 + d[3] \div 4
            b3 == (d[3] % 4) * 64 + d[4]
        IN  IF d[3] = Pad THEN << b1 >>
            ELSE IF d[4] = Pad THEN << b1, b2 >>
            ELSE << b1, b2, b3 >> \o UnBase64(SubSeq(d, 5, Len(d)))

\* ------------------------------------------------------------------ json.ts
IdxKey == <<"0", "1", "2", "3">>

\* Object.entries(v), as a function from the own enumerable keys
Entries(v) ==
    CASE v.k \in {"object", "instance"} -> v.props
      [] v.k \in {"array"} -> [x \in {IdxKey[i] : i \in 1..Len(v.items)} |->
                                 v.items[CHOOSE i \in 1..Len(v.items) : IdxKey[i] = x]]
      [] v.k = "Buffer" -> [x \in {IdxKey[i] : i \in 1..Len(v.bytes)} |->
                                 Num(v.bytes[CHOOSE i \in 1..Len(v.bytes) : IdxKey[i] = x])]
      [] v.k \in {"Map", "function", "symbol", "bigint", "number", "boolean"} -> EmptyProps

\* Object.entries(null) and Object.entries(undefined) throw a TypeError
EntriesThrows(v) == IsNullish(v)

Overlay(f, g) ==
    [x \in (DOMAIN f) \cup (DOMAIN g) |-> IF x \in DOMAIN g THEN g[x] ELSE f[x]]

isSerializable(obj) == typeof(obj) \notin {"bigint", "function", "symbol"}

\* serializableClasses.find((c) => val instanceof c.classRef)
FindClassOf(val) ==
    LET hits == {i \in 1..Len(serializableClasses) :
                    val.k = "instance" /\ val.cls = serializableClasses[i].classRef}
    IN  IF hits = {} THEN NoValue
        ELSE serializableClasses[CHOOSE i \in hits : \A j \in hits : i <= j]

\* serializableClasses.find((c) => c.classRef.name === name)
FindClassNamed(name) ==
    LET hits == {i \in 1..Len(serializableClasses) :
                    serializableClasses[i].classRef = name}
    IN  IF hits = {} THEN NoValue
        ELSE serializableClasses[CHOOSE i \in hits : \A j \in hits : i <= j]

Envelope(data, tag) ==
    IF IsThrow(data) THEN data ELSE Obj([data |-> data, type |-> Str(tag)])

RECURSIVE jsonify(_, _), writeValue(_)
writeValue(val) ==
    IF IsNullish(val) THEN Null
    ELSE CASE typeof(val) \in {"boolean", "number", "string"} -> val
           [] typeof(val) = "object" ->
                IF val.k = "Map" THEN
                    Envelope(jsonify(Arr([i \in 1..Len(val.entries) |->
                                            Arr(val.entries[i])]), {}), "Map")
                ELSE IF val.k = "array" THEN jsonify(val, {})
                ELSE IF val.k = "Buffer" THEN
                    Obj([data |-> Str64(Base64(val.bytes)), type |-> Str("Buffer")])
                ELSE LET clas == FindClassOf(val)
                     IN  IF clas # NoValue
                         THEN Envelope(jsonify(val, clas.ignoredProps),
                                       CustomTag[clas.classRef])
                         ELSE Envelope(jsonify(val, {}), "object")
           [] OTHER -> Throw("Cannot write object of type")

jsonify(obj, ignoredProps) ==
    IF obj.k = "array" THEN
        LET kept == SelectSeq(obj.items, isSerializable)
            parsed == [i \in 1..Len(kept) |-> writeValue(kept[i])]
        IN  IF FirstThrow(parsed) # 0 THEN parsed[FirstThrow(parsed)] ELSE Arr(parsed)
    ELSE
        LET ents == Entries(obj)
        IN  IF EntriesThrows(obj) THEN Throw("TypeError")
            ELSE LET keys == {key \in DOMAIN ents :
                                isSerializable(ents[key]) /\ key \notin ignoredProps}
                     parsed == [key \in keys |-> writeValue(ents[key])]
                 IN  IF \E key \in keys : IsThrow(parsed[key])
                     THEN parsed[CHOOSE key \in keys : IsThrow(parsed[key])]
                     ELSE Obj(parsed)

\* readValue without the `new Map(...)` around the decoded entries
NewMapForgotten(v) == v

\* new Map(iterable): every item must be an entry array
NewMap(v) ==
    IF IsThrow(v) THEN v
    ELSE IF v.k = "array" /\ \A i \in 1..Len(v.items) :
                                v.items[i].k = "array" /\ Len(v.items[i].items) = 2
    THEN MapV([i \in 1..Len(v.items) |-> v.items[i].items])
    ELSE Throw("TypeError")

\* Buffer.from(data, 'base64')
BufferFrom(data) ==
    IF data.k = "string" /\ "b64" \in DOMAIN data
    THEN Buf(UnBase64(data.b64))
    ELSE Throw("TypeError")

\* val.type of an object value (undefined when it has no such key)
TypeOfEnvelope(val) ==
    IF val.k \in {"object", "instance"} /\ "type" \in DOMAIN val.props
    THEN val.props.type ELSE Undef

DataOfEnvelope(val) ==
    IF val.k \in {"object", "instance"} /\ "data" \in DOMAIN val.props
    THEN val.props.data ELSE Undef

\* readValue falling back to the decoded fields when the class is unknown
ReadCustomLenient(clas, fields) ==
    IF clas # NoValue
    THEN IF IsThrow(fields) THEN fields
         ELSE Inst(clas.classRef, Overlay(ClassDefaults[clas.classRef], Entries(fields)))
    ELSE fields

\* json.ts 100-105: reconstruct an instance of the registered class, or fail
ReadCustom(clas, fields) ==
    IF clas # NoValue
    THEN IF IsThrow(fields) THEN fields
         ELSE Inst(clas.classRef, Overlay(ClassDefaults[clas.classRef], Entries(fields)))
    ELSE Throw("Class for type was not registered")

RECURSIVE dejsonify(_, _), readValue(_, _)
\* readValue accepting an untagged object whatever compatMode says
ReadUntaggedAlways(val, compat) == dejsonify(val, compat)

\* json.ts 79-82: an object without a type tag
ReadUntagged(val, compat) ==
    IF compat THEN dejsonify(val, compat)
    ELSE Throw("JSON object has a null type")

readValue(val, compat) ==
    IF IsNullish(val) THEN Null
    ELSE CASE typeof(val) \in {"boolean", "number", "string"} -> val
           [] typeof(val) = "object" ->
                LET type == TypeOfEnvelope(val)
                    data == DataOfEnvelope(val)
                IN  IF val.k = "array" THEN dejsonify(val, compat)
                    ELSE IF IsNullish(type) THEN ReadUntagged(val, compat)
                    ELSE IF type = Str("Map") THEN NewMap(dejsonify(data, compat))
                    ELSE IF type = Str("Buffer") THEN BufferFrom(data)
                    ELSE IF type = Str("object") THEN dejsonify(data, compat)
                    ELSE IF type.k # "string" THEN Throw("TypeError")
                    ELSE IF "s" \in DOMAIN type /\ IsCustomTag(type.s) THEN
                        ReadCustom(FindClassNamed(TagClass(type.s)),
                                   dejsonify(data, compat))
                    ELSE IF compat THEN dejsonify(val, compat)
                    ELSE Throw("JSON object is of unknown type")
           [] OTHER -> Throw("Cannot read object of type")

dejsonify(jsonObj, compat) ==
    IF jsonObj.k = "array" THEN
        LET parsed == [i \in 1..Len(jsonObj.items) |-> readValue(jsonObj.items[i], compat)]
        IN  IF FirstThrow(parsed) # 0 THEN parsed[FirstThrow(parsed)] ELSE Arr(parsed)
    ELSE
        LET ents == Entries(jsonObj)
        IN  IF EntriesThrows(jsonObj) THEN Throw("TypeError")
            ELSE LET parsed == [key \in DOMAIN ents |-> readValue(ents[key], compat)]
                 IN  IF \E key \in DOMAIN ents : IsThrow(parsed[key])
                     THEN parsed[CHOOSE key \in DOMAIN ents : IsThrow(parsed[key])]
                     ELSE Obj(parsed)

\* ------------------------------------------ JSON.stringify and JSON.parse
RECURSIVE JsonTree(_)
\* the tree JSON.stringify writes for v: a non-finite number is written null
JsonTree(v) ==
    CASE v.k = "number" -> IF "nonfinite" \in DOMAIN v THEN Null ELSE v
      [] v.k = "array" -> Arr([i \in 1..Len(v.items) |->
                                IF v.items[i].k \in {"undefined", "function", "symbol"}
                                THEN Null ELSE JsonTree(v.items[i])])
      [] v.k = "object" ->
            LET keys == {x \in DOMAIN v.props :
                            v.props[x].k \notin {"undefined", "function", "symbol"}}
            IN  Obj([x \in keys |-> JsonTree(v.props[x])])
      [] v.k = "Map" -> Obj(EmptyProps)
      [] v.k = "Buffer" ->
            Obj([type |-> Str("Buffer"),
                 data |-> Arr([i \in 1..Len(v.bytes) |-> Num(v.bytes[i])])])
      [] v.k = "instance" ->
            LET keys == {x \in DOMAIN v.props :
                            v.props[x].k \notin {"undefined", "function", "symbol"}}
            IN  Obj([x \in keys |-> JsonTree(v.props[x])])
      [] OTHER -> v

JSONstringify(v) == IF IsThrow(v) THEN v ELSE StrJson(JsonTree(v))

JSONparse(text) ==
    IF text.k = "string" /\ "json" \in DOMAIN text THEN text.json
    ELSE Throw("SyntaxError")

\* --------------------------------- SqliteOrm.serialize / deserialize
ColumnTypes == {"string", "number", "integer", "boolean", "json", "blob"}

IsInteger(v) == v.k = "number" /\ ("n" \in DOMAIN v \/ "unsafe" \in DOMAIN v)
IsSafeInteger(v) == v.k = "number" /\ "n" \in DOMAIN v
IsFinite(v) == v.k = "number" /\ "nonfinite" \notin DOMAIN v

serialize(data, type) ==
    IF IsNullish(data) THEN Null
    ELSE CASE type = "boolean" ->
                IF typeof(data) # "boolean" THEN Throw("DBInvalidData")
                ELSE IF data.b THEN Num(1) ELSE Num(0)
           [] type = "string" ->
                IF typeof(data) # "string" THEN Throw("DBInvalidData") ELSE data
           [] type = "number" ->
                IF typeof(data) # "number" THEN Throw("DBInvalidData") ELSE data
           [] type = "integer" ->
                IF typeof(data) # "number" \/ ~IsInteger(data)
                THEN Throw("DBInvalidData") ELSE data
           [] type = "blob" ->
                IF data.k # "Buffer" THEN Throw("DBInvalidData") ELSE data
           [] type = "json" ->
                IF typeof(data) # "object" THEN Throw("DBInvalidData")
                ELSE JSONstringify(jsonify(data, {}))
           [] OTHER -> Throw("Unknown column type")

deserialize(data, type, jsonCompatMode) ==
    IF IsNullish(data) THEN Null
    ELSE CASE type = "boolean" ->
                IF typeof(data) # "number" /\ ~IsInteger(data) THEN Throw("DBInvalidData")
                ELSE IF data = Num(1) THEN Bool(TRUE) ELSE Bool(FALSE)
           [] type = "string" ->
                IF typeof(data) # "string" THEN Throw("DBInvalidData") ELSE data
           [] type = "number" ->
                IF typeof(data) # "number" THEN Throw("DBInvalidData") ELSE data
           [] type = "integer" ->
                IF typeof(data) # "number" /\ ~IsInteger(data) THEN Throw("DBInvalidData")
                ELSE data
           [] type = "blob" ->
                IF data.k # "Buffer" THEN Throw("DBInvalidData") ELSE data
           [] type = "json" ->
                IF typeof(data) # "string" THEN Throw("DBInvalidData")
                ELSE LET parsed == JSONparse(data)
                         out == IF IsThrow(parsed) THEN parsed
                                ELSE dejsonify(parsed, jsonCompatMode)
                     IN  IF IsThrow(out) THEN Throw("DBInvalidData") ELSE out
           [] OTHER -> Undef


\* ---------------------------------------------------------------- builder.ts
\* A TableColumn is a record of the fields that are set: a Partial<TableColumn>
\* leaves fields out, and a field left out reads undefined.
NoName == "<undefined>"
Has(c, f) == f \in DOMAIN c
Truthy(c, f) == Has(c, f) /\ c[f] = TRUE
MappedTo(c) == IF Has(c, "mappedTo") THEN c.mappedTo ELSE NoName
\* col.mappedTo ?? col.name
PhysicalName(c) == IF Has(c, "mappedTo") THEN c.mappedTo ELSE c.name

Model(tableName, columns, database) ==
    [tableName |-> tableName, columns |-> columns, database |-> database]
NoModel == [tableName |-> NoName]

\* the smallest index of s that satisfies P, 0 when there is none
FirstIndex(s, P(_)) ==
    IF \E i \in 1..Len(s) : P(s[i])
    THEN CHOOSE i \in 1..Len(s) : P(s[i]) /\ \A j \in 1..(i - 1) : ~P(s[j])
    ELSE 0

getSqlType(type) ==
    CASE type \in {"boolean", "integer"} -> "INTEGER"
      [] type \in {"json", "string"} -> "TEXT"
      [] type = "blob" -> "BLOB"
      [] type = "number" -> "REAL"
      [] OTHER -> "throw"

getDefaultValue(type, value) ==
    CASE type = "boolean" -> IF value = Bool(TRUE) \/ (value.k = "number" /\ value # Num(0))
                                \/ (value.k = "string" /\ value # Str(""))
                                \/ (typeof(value) = "object" /\ value # Null)
                             THEN Num(1) ELSE Num(0)
      [] type \in {"number", "integer", "blob", "string"} -> value
      [] type = "json" -> JSONstringify(jsonify(value, {}))
      [] OTHER -> Throw("invalid column type")

\* the column clause of a CREATE TABLE or ADD COLUMN, by its parts
buildColumnQuery(column) ==
    IF Truthy(column, "autoIncrement") /\ column.type # "integer"
    THEN Throw("Auto increment cannot be used on non integer column.")
    ELSE IF getSqlType(column.type) = "throw" THEN Throw("invalid column type")
    ELSE [k |-> "column",
          name |-> column.name,
          sqlType |-> getSqlType(column.type),
          notNull |-> ~Truthy(column, "nullable"),
          dflt |-> IF (~Has(column, "defaultValue") \/ IsNullish(column.defaultValue))
                      /\ ~Truthy(column, "autoIncrement")
                   THEN NoValue
                   ELSE getDefaultValue(column.type,
                            IF Has(column, "defaultValue") THEN column.defaultValue ELSE Undef),
          primaryKey |-> Truthy(column, "isPrimaryKey"),
          autoIncrement |-> Truthy(column, "autoIncrement")]

ColumnClauses(columns) == [i \in 1..Len(columns) |-> buildColumnQuery(columns[i])]

\* the CREATE TABLE statement from the column clauses, or the error of a clause
CreateStatement(model, clauses) ==
    IF FirstThrow(clauses) # 0 THEN clauses[FirstThrow(clauses)]
    ELSE [k |-> "CREATE", database |-> model.database, table |-> model.tableName,
          columns |-> clauses]

buildTableQuery(model) == CreateStatement(model, ColumnClauses(model.columns))

\* columns.find((c) => c.isPrimaryKey)?.name
PrimaryKeyName(columns) ==
    IF FirstIndex(columns, LAMBDA c : Truthy(c, "isPrimaryKey")) = 0 THEN NoName
    ELSE columns[FirstIndex(columns, LAMBDA c : Truthy(c, "isPrimaryKey"))].name

\* one ALTER TABLE ... ADD COLUMN per clause, as an array, or the error of a clause
AddColumnStatements(model, clauses) ==
    IF FirstThrow(clauses) # 0 THEN clauses[FirstThrow(clauses)]
    ELSE Arr([i \in 1..Len(clauses) |->
               [k |-> "ALTER", database |-> model.database, table |-> model.tableName,
                column |-> clauses[i]]])

\* the filter of buildAlterQuery matching the introspected columns on the name alone
MissingByNameOnly(existingModel, actualModel) ==
    SelectSeq(actualModel.columns,
              LAMBDA col : \A i \in 1..Len(existingModel.columns) :
                               existingModel.columns[i].name # col.name)

\* actualModel.columns.filter(col => existingModel.columns.find(...) == null)
MissingColumns(existingModel, actualModel) ==
    SelectSeq(actualModel.columns,
              LAMBDA col : \A i \in 1..Len(existingModel.columns) :
                               /\ existingModel.columns[i].name # col.name
                               /\ existingModel.columns[i].name # MappedTo(col))

\* the ADD COLUMN statements, as an array, or the error thrown
buildAlterQuery(existingModel, actualModel) ==
    IF existingModel.tableName # actualModel.tableName
    THEN Throw("[internal] table names are different")
    ELSE IF PrimaryKeyName(existingModel.columns) # PrimaryKeyName(actualModel.columns)
    THEN Throw("Cannot add a column automatically, a primary key column already exists.")
    ELSE AddColumnStatements(actualModel,
                             ColumnClauses(MissingColumns(existingModel, actualModel)))

buildModelFromData(ogModel, data) ==
    LET Known(datum) ==
            \E i \in 1..Len(ogModel.columns) :
                ogModel.columns[i].name = datum.name \/ MappedTo(ogModel.columns[i]) = datum.name
        kept == SelectSeq(data, Known)
        OgCol(datum) ==
            LET Matches(t) == t.name = datum.name \/ MappedTo(t) = datum.name
            IN  ogModel.columns[FirstIndex(ogModel.columns, Matches)]
        Col(datum) ==
            LET og == OgCol(datum)
                base == [defaultValue |-> datum.dflt_value,
                         name |-> datum.name,
                         nullable |-> (datum.notnull = 0),
                         type |-> og.type,
                         isPrimaryKey |-> (datum.pk = 1),
                         autoIncrement |-> Truthy(og, "autoIncrement")]
            IN  IF Has(og, "mappedTo") THEN Overlay(base, [mappedTo |-> og.mappedTo])
                ELSE base
    IN  Model(ogModel.tableName, [i \in 1..Len(kept) |-> Col(kept[i])], ogModel.database)

\* ------------------------------------------------- the SQL engine (db.exec)
\* table_info rows of a column created by a column clause
TableInfoRow(clause) ==
    [name |-> clause.name,
     type |-> clause.sqlType,
     notnull |-> IF clause.notNull THEN 1 ELSE 0,
     dflt_value |-> clause.dflt,
     pk |-> IF clause.primaryKey THEN 1 ELSE 0]

\* the key of a table in the schema: the tables of an attached database
\* (attach(), 668-678) are kept under the database's name
AttachedTables == [User |-> "aux.User"]
TableKey(database, table) == IF database = "main" THEN table ELSE AttachedTables[table]

\* db.exec of one statement on schema lv: the schema after it, or lv itself
\* with ok FALSE when the engine rejects the statement
Exec(lv, stmt) ==
    IF stmt.k = "CREATE" THEN
        IF lv[TableKey(stmt.database, stmt.table)] # << >> \/ stmt.columns = << >>
        THEN [ok |-> FALSE, live |-> lv]
        ELSE [ok |-> TRUE,
              live |-> [lv EXCEPT ![TableKey(stmt.database, stmt.table)] =
                            [i \in 1..Len(stmt.columns) |-> TableInfoRow(stmt.columns[i])]]]
    ELSE
        IF \/ lv[TableKey(stmt.database, stmt.table)] = << >>
           \/ \E i \in 1..Len(lv[TableKey(stmt.database, stmt.table)]) : lv[TableKey(stmt.database, stmt.table)][i].name = stmt.column.name
           \/ stmt.column.primaryKey
           \/ (stmt.column.notNull /\ stmt.column.dflt \in {NoValue, Null})
        THEN [ok |-> FALSE, live |-> lv]
        ELSE [ok |-> TRUE,
              live |-> [lv EXCEPT ![TableKey(stmt.database, stmt.table)] =
                            Append(lv[TableKey(stmt.database, stmt.table)], TableInfoRow(stmt.column))]]

\* stmts.forEach((c) => this.db.exec(c)): stops at the first rejected statement
RECURSIVE ExecAll(_, _, _)
ExecAll(lv, stmts, i) ==
    IF i > Len(stmts) THEN [ok |-> TRUE, live |-> lv, issued |-> Len(stmts)]
    ELSE LET r == Exec(lv, stmts[i])
         IN  IF r.ok THEN ExecAll(r.live, stmts, i + 1)
             ELSE [ok |-> FALSE, live |-> lv, issued |-> i]


\* ------------------------------------------------ SqliteOrm: model registry
ModelClasses == {"User", "Flag", "Tag"}
TableNames == ModelClasses \cup {"users", "aux.User"}

\* the fields new SqlTable() sets before the fields of the class itself
SqlTableFields ==
    << [key |-> "_new", value |-> Bool(TRUE)], [key |-> "id", value |-> Num(-1)] >>

\* k.startsWith('_'), over the property names in use
startsWithUnderscore(k) == k \in {"_new", "_cache"}

HasPrimaryKey(temp) == \E i \in 1..Len(temp) : Truthy(temp[i], "isPrimaryKey")
IndexOfName(temp, key) == FirstIndex(temp, LAMBDA c : c.name = key)

Done(temp) == [err |-> "", temp |-> temp]
Failed(e, temp) == [err |-> e, temp |-> temp]

\* data.f = v when data.f == null
WithDefault(data, f, v) == IF Has(data, f) THEN data ELSE Overlay(data, f :> v)
\* data.nullable = true when data.nullable == null and the property value is nullish
NullableDefault(data, value) ==
    IF ~Has(data, "nullable") /\ IsNullish(value) THEN Overlay(data, [nullable |-> TRUE])
    ELSE data

\* createTempColumn(data, model, propertyKey), value being model[propertyKey]
createTempColumn(temp, data, value, propertyKey) ==
    IF IndexOfName(temp, propertyKey) > 0
    THEN Done([temp EXCEPT ![IndexOfName(temp, propertyKey)] = Overlay(@, data)])
    ELSE IF typeof(value) \notin {"string", "boolean", "number", "object"}
            /\ ~IsNullish(value)
    THEN Failed("DBInvalidTable", temp)
    ELSE IF ~Has(data, "type") /\ IsNullish(value)
    THEN Failed("DBInvalidTable", temp)
    ELSE Done(Append(temp,
            WithDefault(
              NullableDefault(
                WithDefault(
                  WithDefault(
                    Overlay(data, [name |-> propertyKey, defaultValue |-> value]),
                    "type", IF typeof(value) = "object" THEN "json" ELSE typeof(value)),
                  "isPrimaryKey", ~HasPrimaryKey(temp) /\ propertyKey = "id"),
                value),
              "autoIncrement", FALSE)))

\* the property decorator returned by column(data)
column(temp, data, value, propertyKey) ==
    IF Truthy(data, "isPrimaryKey") /\ HasPrimaryKey(temp)
    THEN Failed("DBInvalidTable", temp)
    ELSE createTempColumn(temp, data, value, propertyKey)

\* the property decorator returned by ignoreColumn(): the pending columns after it
Splice(temp, index) ==
    IF index > 0
    THEN [i \in 1..(Len(temp) - 1) |-> IF i < index THEN temp[i] ELSE temp[i + 1]]
    ELSE temp
ignoreColumn(temp, propertyKey) == Splice(temp, IndexOfName(temp, propertyKey))

\* the type model() gives the column of entry k = v
LoopType(temp, k, v) ==
    IF IndexOfName(temp, k) = 0
    THEN IF typeof(v) = "object" THEN "json"
         ELSE IF typeof(v) = "number" THEN "integer"
         ELSE typeof(v)
    ELSE temp[IndexOfName(temp, k)].type

\* the loop of model() over Object.entries(tempModel), from entry i on
RECURSIVE ModelLoop(_, _, _, _, _), LoopStep(_, _, _, _, _)
ModelLoop(temp, ignored, entries, i, hasPrimaryKey) ==
    IF i > Len(entries) THEN Done(temp)
    ELSE IF entries[i].key \in ignored
    THEN ModelLoop(temp, ignored, entries, i + 1, hasPrimaryKey)
    ELSE IF IsNullish(entries[i].value) /\ IndexOfName(temp, entries[i].key) = 0
    THEN Failed("DBInvalidTable", temp)
    ELSE IF \/ typeof(entries[i].value) \notin {"string", "boolean", "object", "number"}
            \/ (hasPrimaryKey /\ entries[i].key = "id")
            \/ startsWithUnderscore(entries[i].key)
    THEN ModelLoop(temp, ignored, entries, i + 1, hasPrimaryKey)
    ELSE LoopStep(createTempColumn(temp,
                      [defaultValue |-> entries[i].value,
                       nullable |-> IsNullish(entries[i].value),
                       name |-> entries[i].key,
                       type |-> LoopType(temp, entries[i].key, entries[i].value),
                       isPrimaryKey |-> (~hasPrimaryKey /\ entries[i].key = "id"),
                       autoIncrement |-> (entries[i].key = "id" /\ ~hasPrimaryKey)],
                      entries[i].value, entries[i].key),
                  ignored, entries, i, hasPrimaryKey)
LoopStep(made, ignored, entries, i, hasPrimaryKey) ==
    IF made.err # "" THEN made
    ELSE ModelLoop(made.temp, ignored, entries, i + 1, hasPrimaryKey)

\* A class declaration: the fields its constructor sets (after SqlTable's), the
\* property decorators in the order they run, and the arguments of @model
\* (hasModel FALSE: the class carries no @model decorator).
Instance(d) == SqlTableFields \o d.fields
ValueOf(entries, key) == entries[FirstIndex(entries, LAMBDA e : e.key = key)].value

\* the property decorators of a class, from decorator i on
RECURSIVE ApplyDecorators(_, _, _, _, _), DecoratorStep(_, _, _, _, _)
ApplyDecorators(temp, ignored, entries, decos, i) ==
    IF i > Len(decos) THEN [err |-> "", temp |-> temp, ignored |-> ignored]
    ELSE IF decos[i].kind = "ignoreColumn"
    THEN ApplyDecorators(ignoreColumn(temp, decos[i].key), ignored \cup {decos[i].key},
                         entries, decos, i + 1)
    ELSE DecoratorStep(column(temp, decos[i].data, ValueOf(entries, decos[i].key),
                              decos[i].key),
                       ignored, entries, decos, i)
DecoratorStep(made, ignored, entries, decos, i) ==
    IF made.err # "" THEN [err |-> made.err, temp |-> made.temp, ignored |-> ignored]
    ELSE ApplyDecorators(made.temp, ignored, entries, decos, i + 1)

\* {...col, defaultValue: undefined}, the part of a column prettyPrintDiff compares
Meta(c) == [f \in (DOMAIN c) \ {"defaultValue"} |-> c[f]]

\* a comparison that takes the default values into account as well
SnapshotDiffersInAnyField(lastModel, builtModel) ==
    IF lastModel = NoModel THEN TRUE
    ELSE \/ lastModel.database # builtModel.database
         \/ lastModel.columns # builtModel.columns

\* lines 524-570 of model(): does the registration differ from the last snapshot
SnapshotDiffers(lastModel, builtModel) ==
    IF lastModel = NoModel THEN TRUE
    ELSE LET oldCols == lastModel.columns
             newCols == builtModel.columns
             Same(a, b) == PhysicalName(a) = PhysicalName(b)
         IN  \/ lastModel.database # builtModel.database
             \/ \E i \in 1..Len(oldCols) :
                    LET j == FirstIndex(newCols, LAMBDA c : Same(c, oldCols[i]))
                    IN  j = 0 \/ Meta(oldCols[i]) # Meta(newCols[j])
             \/ \E j \in 1..Len(newCols) :
                    \A i \in 1..Len(oldCols) : ~Same(oldCols[i], newCols[j])

NoStatements == << >>

\* cut past every statement list: the process is not killed
MaxStatements == 4
\* how many of the statements of all run when the process is killed after cut
Ran(all, cut) == IF cut < MaxStatements /\ cut < Len(all) THEN cut ELSE Len(all)

\* what lines 506-570 of model() did: the schema after it, the statements built
\* and the ones handed to db.exec, the error if any, hasModelChanges
Reconciled(builtModel, info, lv, planned, stmts, result, changes, path) ==
    [built |-> builtModel, info |-> info, live |-> lv, planned |-> planned,
     stmts |-> stmts, result |-> result, changes |-> changes, path |-> path]

\* lines 512-514 and 524-570: q is buildTableQuery(builtModel), r the engine's answer
Created(builtModel, lv, q, r) ==
    IF IsThrow(q)
    THEN Reconciled(builtModel, << >>, lv, NoStatements, NoStatements, "Error", TRUE, "create")
    ELSE IF ~r.ok
    THEN Reconciled(builtModel, << >>, lv, <<q>>, <<q>>, "SqliteError", TRUE, "create")
    ELSE Reconciled(builtModel, << >>, r.live, <<q>>, <<q>>, "ok", TRUE, "create")

\* lines 515-522 and 524-570: all is what buildAlterQuery returned, r the engine's
\* answer to the first cut statements of it
Altered(builtModel, info, lv, differs, changes, all, cut, r) ==
    IF ~r.ok
    THEN Reconciled(builtModel, info, r.live, all, SubSeq(all, 1, r.issued),
                    "SqliteError", TRUE, "alter")
    ELSE IF Ran(all, cut) < Len(all)
    THEN Reconciled(builtModel, info, r.live, all, SubSeq(all, 1, cut),
                    "killed", TRUE, "alter")
    ELSE Reconciled(builtModel, info, r.live, all, all, "ok",
                    changes \/ differs \/ Len(all) > 0, "alter")

AlterPath(builtModel, info, lv, differs, changes, q, cut) ==
    IF IsThrow(q)
    THEN Reconciled(builtModel, info, lv, NoStatements, NoStatements, q.err, changes, "alter")
    ELSE Altered(builtModel, info, lv, differs, changes, q.items, cut,
                 ExecAll(lv, SubSeq(q.items, 1, Ran(q.items, cut)), 1))

\* info is the answer to PRAGMA <database>.table_info('<class name>')
Reconciling(builtModel, lv, info, differs, changes, cut) ==
    IF info = << >>
    THEN Created(builtModel, lv, buildTableQuery(builtModel),
                 IF IsThrow(buildTableQuery(builtModel)) THEN [ok |-> FALSE, live |-> lv]
                 ELSE Exec(lv, buildTableQuery(builtModel)))
    ELSE AlterPath(builtModel, info, lv, differs, changes,
                   buildAlterQuery(buildModelFromData(builtModel, info), builtModel), cut)

\* lines 506-570 of model(), on the built model: introspection, DDL, snapshot
\* comparison.  cut is the number of statements after which the process is
\* killed (MaxStatements: it is not).
Reconcile(cls, builtModel, lv, lastModel, changes, cut) ==
    Reconciling(builtModel, lv, lv[TableKey(builtModel.database, cls)],
                SnapshotDiffers(lastModel, builtModel), changes, cut)

\* ------------------------------------------------- SqliteOrm: state, actions
NoModels == [c \in ModelClasses |-> NoModel]
NoTables == [t \in TableNames |-> << >>]
NoRegistration ==
    [cls |-> NoName, decl |-> NoValue, stage |-> "none", before |-> NoTables,
     again |-> FALSE,
     built |-> NoModel, info |-> << >>, planned |-> NoStatements,
     stmts |-> NoStatements, result |-> "none", path |-> "none", flagged |-> FALSE]

\* the slots for the objects the program holds
MaxObjects == 2
Slots == 1..MaxObjects
NoOperation ==
    [op |-> "none", cls |-> NoName, slot |-> 0, arg |-> NoValue, wasNew |-> FALSE,
     model |-> NoModel, before |-> << >>,
     stmts |-> << >>, result |-> "none", rowid |-> 0, returned |-> NoValue]

\* no statement builder called yet
NoBuild == [op |-> "none", model |-> NoModel, data |-> << >>, query |-> NoValue]
NoStore == [written |-> FALSE, file |-> NoValue, got |-> NoValue]
\* no backup pass yet: doBackup not called, the backup directory just made (211-213)
NoPass == [type |-> "none", due |-> FALSE, copied |-> FALSE, unlinked |-> FALSE,
           result |-> "none"]
AuxIdle ==
    /\ builder = NoBuild
    /\ store = NoStore
    /\ backupDir = {}
    /\ clock = 0
    /\ pass = NoPass

\* an empty database, no object made yet
RowIdle ==
    /\ rows = [t \in TableNames |-> << >>]
    /\ objects = [o \in Slots |-> NoValue]
    /\ hasChangesSinceBackup = FALSE
    /\ sinceBackup = FALSE
    /\ inserts = [o \in Slots |-> 0]
    /\ done = NoOperation

\* a fresh SqliteOrm over a database file without a snapshot beside it
OrmFresh ==
    /\ models = NoModels
    /\ tempModelData = << >>
    /\ ignoredColumns = {}
    /\ hasModelChanges = FALSE
    /\ lastModels = NoModels
    /\ snapshot = NoModels
    /\ backupTaken = FALSE
    /\ applied = NoModels
    /\ evaluated = {}
    /\ runs = 1
    /\ last = NoRegistration

\* the registry of a run that uses the codec only
OrmIdle ==
    /\ live = NoTables
    /\ OrmFresh

\* JSON.stringify then JSON.parse of a column: an undefined default is dropped
JsonColumn(c) ==
    IF ~Has(c, "defaultValue") THEN c
    ELSE IF c.defaultValue.k \in {"undefined", "function", "symbol"}
    THEN [f \in (DOMAIN c) \ {"defaultValue"} |-> c[f]]
    ELSE [c EXCEPT !.defaultValue = JsonTree(c.defaultValue)]
JsonModel(m) ==
    IF m = NoModel THEN NoModel
    ELSE Model(m.tableName, [i \in 1..Len(m.columns) |-> JsonColumn(m.columns[i])],
               m.database)

\* model-reader.ts: the file is kept as the tree its JSON text denotes; NoValue is
\* no file
write(mods) ==
    Obj([version |-> Num(1), models |-> [c \in DOMAIN mods |-> JsonModel(mods[c])]])
readVersion0(data) == Obj([version |-> Num(1), models |-> data.props])
\* read with the catch taken whatever the file holds
readNothing(file) == NoModels
read(file) ==
    IF file = NoValue \/ file.k # "object" THEN NoModels
    ELSE IF "version" \notin DOMAIN file.props THEN readVersion0(file).props.models
    ELSE IF file.props.version = Num(1) THEN file.props.models
    ELSE Throw("unknown version for models")

\* the processes started on one database
MaxRuns == 2

\* What the evaluation of a class declaration computes: its property
\* decorators, then @model(tableName) when the class carries it.
Built(d, loop) ==
    Model(IF d.tableName = NoName THEN d.cls ELSE d.tableName, loop.temp, d.database)
OutcomeOfLoop(d, cut, deco, loop) ==
    [deco |-> deco, loop |-> loop, built |-> Built(d, loop),
     rec |-> IF deco.err = "" /\ d.hasModel /\ loop.err = ""
             THEN Reconcile(d.cls, Built(d, loop), live, lastModels[d.cls],
                            hasModelChanges, cut)
             ELSE NoValue]
OutcomeOfDecorators(d, cut, deco) ==
    OutcomeOfLoop(d, cut, deco,
                  ModelLoop(deco.temp, deco.ignored, Instance(d), 1, HasPrimaryKey(deco.temp)))
Outcome(d, cut) ==
    OutcomeOfDecorators(d, cut,
        ApplyDecorators(tempModelData, ignoredColumns, Instance(d), d.decos, 1))

Registered(d, o) ==
    [cls |-> d.cls, decl |-> d, stage |-> "reconciled", before |-> live,
     again |-> (applied[d.cls] = o.built),
     built |-> o.built, info |-> o.rec.info, planned |-> o.rec.planned,
     stmts |-> o.rec.stmts, result |-> o.rec.result, path |-> o.rec.path,
     flagged |-> o.rec.changes]

NotRegistered(d, stage, result) ==
    [NoRegistration EXCEPT !.cls = d.cls, !.decl = d, !.before = live, !.stage = stage,
                           !.result = result]

\* the registry after a class declaration is evaluated, and the note of it
Unregistered(temp, ignored, note) ==
    [temp |-> temp, ignored |-> ignored, models |-> models, live |-> live,
     changes |-> hasModelChanges, applied |-> applied, last |-> note]
EvaluatedTo(d, o) ==
    IF o.deco.err # ""
    THEN Unregistered(o.deco.temp, o.deco.ignored,
                      NotRegistered(d, "decorators", "DBInvalidTable"))
    ELSE IF ~d.hasModel
    THEN Unregistered(o.deco.temp, o.deco.ignored, NotRegistered(d, "decorators", "ok"))
    ELSE IF o.loop.err # ""
    THEN Unregistered(o.loop.temp, o.deco.ignored,
                      NotRegistered(d, "model", "DBInvalidTable"))
    ELSE [temp |-> << >>,
          ignored |-> o.deco.ignored,
          models |-> [models EXCEPT ![d.cls] = o.built],
          live |-> o.rec.live,
          changes |-> o.rec.changes,
          applied |-> IF o.rec.result = "ok"
                      THEN [applied EXCEPT ![d.cls] = o.built] ELSE applied,
          last |-> Registered(d, o)]
Evaluated(d) == EvaluatedTo(d, Outcome(d, MaxStatements))

\* a class declaration is evaluated: decorators 375-448, model() 455-572
Declare(d) ==
    LET e == Evaluated(d)
    IN  /\ d.cls \notin evaluated
        /\ evaluated' = evaluated \cup {d.cls}
        /\ tempModelData' = e.temp
        /\ ignoredColumns' = e.ignored
        /\ models' = e.models
        /\ live' = e.live
        /\ hasModelChanges' = e.changes
        /\ applied' = e.applied
        /\ last' = e.last
        /\ UNCHANGED <<lastModels, snapshot, backupTaken, runs, codecVars, rowVars, auxVars>>

\* the process is killed inside model(), after cut of its ALTER statements ran;
\* the next process opens the database anew (constructor, 194-224)
Interrupted(d, cut) ==
    LET o == Outcome(d, cut)
    IN  /\ d.cls \notin evaluated
        /\ runs < MaxRuns
        /\ d.hasModel
        /\ o.deco.err = ""
        /\ o.loop.err = ""
        /\ o.rec.result = "killed"
        /\ live' = o.rec.live
        /\ applied' = [applied EXCEPT ![d.cls] = o.built]
        /\ last' = Registered(d, o)
        /\ models' = NoModels
        /\ tempModelData' = << >>
        /\ ignoredColumns' = {}
        /\ hasModelChanges' = FALSE
        /\ lastModels' = snapshot
        /\ backupTaken' = FALSE
        /\ evaluated' = {}
        /\ runs' = runs + 1
        /\ UNCHANGED <<snapshot, codecVars, rowVars, auxVars>>

\* ------------------------------------------------------------- backups
\* doBackup(), 590-624, with backups enabled (opts.backupDir set, 196-197) and
\* backupUseGitCommit off.  The name of an entry of the backup directory is
\* `${type}-${new Date().toISOString()}-${dbName}`: its type and the time of
\* the copy.  Time is counted in ticks, TicksPerYear of them to a year.
backupMax == 2
TicksPerYear == 2
MaxClock == 4

backupName(type, now) == [type |-> type, time |-> now]
\* the name '' that oldestBackup starts with
EmptyName == [type |-> "", time |-> 0]

\* new Date(backup.split('-')[1]): the text between the first two dashes is
\* the year of the ISO time, and the date made of it is the start of the year
createDate(backup) == (backup.time \div TicksPerYear) * TicksPerYear

\* the entries for which backup.startsWith('auto-')
AutoBackups(dir) == {b \in dir : b.type = "auto"}

\* What the loop of 601-611 may leave in oldestBackup.  oldestTime starts at
\* the current time and an entry replaces it when its date is strictly
\* earlier, so the result is the first entry, in the order readdirSync lists
\* them, of the earliest date before now.  That order is the file system's:
\* any entry of that date may come first.
OldestBackups(dir, now) ==
    LET early == {b \in AutoBackups(dir) : createDate(b) < now}
    IN  IF early = {} THEN {EmptyName}
        ELSE {b \in early : \A c \in early : createDate(b) <= createDate(c)}

\* a pass that leaves every entry in place
NotRotated(dir, changed, oldestBackup) ==
    [dir |-> dir, changed |-> FALSE, copied |-> TRUE, unlinked |-> FALSE, result |-> "ok"]

\* 612-614 and 623 on the directory after the copy: unlinkSync of the
\* directory itself (the name '') throws, and the flag is then not reset
Rotated(dir, changed, oldestBackup) ==
    IF Cardinality(AutoBackups(dir)) > backupMax
    THEN IF oldestBackup = EmptyName
         THEN [dir |-> dir, changed |-> changed, copied |-> TRUE, unlinked |-> FALSE,
               result |-> "EISDIR"]
         ELSE [dir |-> dir \ {oldestBackup}, changed |-> FALSE, copied |-> TRUE,
               unlinked |-> TRUE, result |-> "ok"]
    ELSE [dir |-> dir, changed |-> FALSE, copied |-> TRUE, unlinked |-> FALSE,
          result |-> "ok"]

\* a pass that copies whatever the flag says
doBackupAlways(type, dir, changed, now, oldestBackup) ==
    Rotated(dir \cup {backupName(type, now)}, changed, oldestBackup)

doBackup(type, dir, changed, now, oldestBackup) ==
    IF ~changed /\ type = "auto"
    THEN [dir |-> dir, changed |-> changed, copied |-> FALSE, unlinked |-> FALSE,
          result |-> "ok"]
    ELSE Rotated(dir \cup {backupName(type, now)}, changed, oldestBackup)

BackupTypes == {"auto", "model-changes", "manual"}

\* a doBackup(type) call: by the interval timer (213-217), manualBackup()
\* (586-588) or the program.  Entries of the other types are never removed
\* by the code; the runs keep one of them at a time.
DoBackup(type) ==
    \E oldestBackup \in OldestBackups(backupDir \cup {backupName(type, clock)}, clock) :
        LET res == doBackup(type, backupDir, hasChangesSinceBackup, clock, oldestBackup)
        IN  /\ type # "auto" =>
                   backupDir \ AutoBackups(backupDir) \subseteq {backupName(type, clock)}
            /\ backupDir' = res.dir
            /\ hasChangesSinceBackup' = res.changed
            /\ sinceBackup' = (sinceBackup /\ ~res.copied)
            /\ pass' = [type |-> type, due |-> sinceBackup, copied |-> res.copied,
                        unlinked |-> res.unlinked, result |-> res.result]
            /\ UNCHANGED <<rows, objects, inserts, done, clock, builder, store,
                           codecVars, ormVars>>

\* time passes
Tick ==
    /\ clock < MaxClock
    /\ clock' = clock + 1
    /\ UNCHANGED <<backupDir, pass, builder, store, codecVars, ormVars, rowVars>>

\* modelsLoaded(), 654-666, with backups enabled
modelsLoaded ==
    LET removed == \E c \in ModelClasses : lastModels[c] # NoModel /\ models[c] = NoModel
    IN  /\ backupTaken' = (hasModelChanges \/ removed)
        /\ hasModelChanges' = FALSE
        /\ snapshot' = [c \in ModelClasses |-> JsonModel(models[c])]
        /\ IF hasModelChanges \/ removed
           THEN \E oldestBackup \in OldestBackups(
                        backupDir \cup {backupName("model-changes", clock)}, clock) :
                    LET res == doBackup("model-changes", backupDir,
                                        hasChangesSinceBackup, clock, oldestBackup)
                    IN  /\ backupDir' = res.dir
                        /\ hasChangesSinceBackup' = res.changed
                        /\ sinceBackup' = (sinceBackup /\ ~res.copied)
                        /\ pass' = [type |-> "model-changes", due |-> sinceBackup,
                                    copied |-> res.copied, unlinked |-> res.unlinked,
                                    result |-> res.result]
           ELSE UNCHANGED <<backupDir, hasChangesSinceBackup, sinceBackup, pass>>
        /\ UNCHANGED <<live, models, tempModelData, ignoredColumns, lastModels, applied,
                       evaluated, runs, last, codecVars, rows, objects, inserts, done,
                       clock, builder, store>>

\* the process ends and the next one opens the same database (constructor, 194-224)
Restart ==
    /\ runs < MaxRuns
    /\ evaluated' = {}
    /\ runs' = runs + 1
    /\ models' = NoModels
    /\ tempModelData' = << >>
    /\ ignoredColumns' = {}
    /\ hasModelChanges' = FALSE
    /\ lastModels' = snapshot
    /\ backupTaken' = FALSE
    /\ last' = NoRegistration
    /\ UNCHANGED <<live, snapshot, applied, codecVars, rowVars, auxVars>>

\* ------------------------------------------------------ the values tried
SeqsUpTo(S, n) == UNION {[1..m -> S] : m \in 0..n}
FunsOver(K, S) == UNION {[D -> S] : D \in SUBSET K}

PrimVals == {Null, Bool(TRUE), Bool(FALSE), Num(1), NaN, Str("x")}
NonSerializable == {Fn, Sym, Big}
ByteVals == {0, 65, 255}

MixedArrays == {Arr(s) : s \in SeqsUpTo(PrimVals, MaxArrLen)}
Buffers == {Buf(b) : b \in SeqsUpTo(ByteVals, MaxBufLen)}
MapKeys == {Num(1), Bool(TRUE), Null, Obj([a |-> Num(1)])}
MapVals == {Str("x"), Arr(<<Num(1)>>)}
Maps == {MapV(e) : e \in SeqsUpTo(MapKeys \X MapVals, MaxMapLen)}
Instances ==
    {Inst(c, f) : c \in ClassNames, f \in FunsOver({"a", "secret"}, {Num(1), Str("x")})}
NestedVals ==
    {Arr(<<Num(1), Str("x")>>), Obj([a |-> Num(1)]), Obj(EmptyProps),
     Obj([type |-> Str("x")])}
PlainObjects ==
    {Obj(f) : f \in FunsOver({"a", "type"}, PrimVals \cup NestedVals)}

\* the five kinds of value the round trip is stated for
RoundTripValues == PlainObjects \cup MixedArrays \cup Maps \cup Buffers \cup Instances

\* a value as a property of a plain object, and as an element of an array
AsProperty(v) == Obj([a |-> v])
AsElement(v) == Arr(<<v>>)

CodecInputs ==
    RoundTripValues \cup NonSerializable
    \cup {AsProperty(v) : v \in RoundTripValues \cup NonSerializable \cup {Undef}}
    \cup {AsElement(v) : v \in RoundTripValues \cup NonSerializable \cup {Undef}}

\* payloads found in a database: legacy (untagged) JSON and tagged envelopes
LegacyLeaf == {Null, Num(1), Str("x")}
LegacyInner ==
    {Obj(EmptyProps), Obj([a |-> Num(1)]), Arr(<<Obj([a |-> Num(1)])>>),
     Obj([a |-> Obj([b |-> Str("x")])])}
\* untagged all the way down, with an untagged object below the top level
LegacyNested ==
    {Obj(f) : f \in FunsOver({"a", "b"}, LegacyLeaf \cup LegacyInner)}
    \cup {Arr(q) : q \in SeqsUpTo(LegacyLeaf \cup LegacyInner, MaxArrLen)}
CustomEnvelopes ==
    {Obj([data |-> d, type |-> Str(CustomTag[c])]) :
        c \in ClassNames, d \in {Obj(EmptyProps), Obj([a |-> Num(1)]),
                                 Obj([a |-> Obj([b |-> Str("x")])])}}
TaggedInner ==
    CustomEnvelopes
    \cup {Obj([data |-> u, type |-> Str("object")]) : u \in LegacyInner}
    \cup {Obj([data |-> Arr(<<Arr(<<Num(1), u>>)>>), type |-> Str("Map")]) :
            u \in LegacyInner \cup CustomEnvelopes}
    \cup {Obj([data |-> Obj([a |-> e]), type |-> Str("object")]) : e \in CustomEnvelopes}
    \cup {Obj([a |-> Num(1), type |-> Str("legacy")])}
Payloads ==
    LegacyNested \cup TaggedInner
    \cup {AsProperty(e) : e \in TaggedInner} \cup {AsElement(e) : e \in TaggedInner}
    \cup {Obj([a |-> Obj([b |-> e])]) : e \in TaggedInner}

\* column values tried by the per-column serialize
JsonColumnValues ==
    Instances
    \cup {Obj(f) : f \in FunsOver({"a"}, PrimVals \cup NestedVals)}
    \cup {Arr(q) : q \in SeqsUpTo({Null, Num(1), Str("x")}, MaxArrLen)}
    \cup {MapV(<< >>), MapV(<< <<Num(1), Str("x")>> >>),
          AsProperty(MapV(<< <<Num(1), Str("x")>> >>)),
          AsProperty(Buf(<<65, 255>>)), AsElement(Inst("Foo", [a |-> Num(1)]))}
ColumnValues ==
    PrimVals \cup {Num(0), Str(""), Undef} \cup NonSerializable \cup Buffers
    \cup JsonColumnValues

\* ------------------------------------------------------ codec operations
MaxRegistered == 2
IgnoredProps == [Foo |-> {"secret"}, Bar |-> {"secret"}]

CodecInit ==
    /\ serializableClasses = << >>
    /\ input = NoValue
    /\ compatMode \in BOOLEAN
    /\ encoded = NoValue
    /\ decoded = NoValue
    /\ colType = "none"
    /\ phase = "start"
    /\ OrmIdle
    /\ RowIdle
    /\ AuxIdle

\* @registerJsonSerializable(ignoredProps) on class c
registerJsonSerializable(c) ==
    /\ phase = "start"
    /\ Len(serializableClasses) < MaxRegistered
    /\ \A i \in 1..Len(serializableClasses) : serializableClasses[i].classRef # c
    /\ serializableClasses' =
          Append(serializableClasses, [classRef |-> c, ignoredProps |-> IgnoredProps[c]])
    /\ UNCHANGED <<input, compatMode, encoded, decoded, colType, phase>>
    /\ UNCHANGED <<ormVars, rowVars, auxVars>>

\* a caller runs jsonify(v)
Jsonify(v) ==
    /\ phase = "start"
    /\ input' = v
    /\ encoded' = jsonify(v, {})
    /\ phase' = "encoded"
    /\ UNCHANGED <<serializableClasses, compatMode, decoded, colType>>
    /\ UNCHANGED <<ormVars, rowVars, auxVars>>

\* a payload read from storage, not written by this run
Receive(p) ==
    /\ phase = "start"
    /\ encoded' = p
    /\ phase' = "received"
    /\ UNCHANGED <<serializableClasses, input, compatMode, decoded, colType>>
    /\ UNCHANGED <<ormVars, rowVars, auxVars>>

\* a caller runs dejsonify(encoded, compatMode)
Dejsonify ==
    /\ phase \in {"encoded", "received"}
    /\ ~IsThrow(encoded)
    /\ decoded' = dejsonify(encoded, compatMode)
    /\ phase' = "decoded"
    /\ UNCHANGED <<serializableClasses, input, compatMode, encoded, colType>>
    /\ UNCHANGED <<ormVars, rowVars, auxVars>>

\* save: this.serialize(obj[col.name], col.type)
SerializeColumn(v, t) ==
    /\ phase = "start"
    /\ input' = v
    /\ colType' = t
    /\ encoded' = serialize(v, t)
    /\ phase' = "stored"
    /\ UNCHANGED <<serializableClasses, compatMode, decoded>>
    /\ UNCHANGED <<ormVars, rowVars, auxVars>>

\* findOne/findMany: this.deserialize(found[col], col.type)
DeserializeColumn ==
    /\ phase = "stored"
    /\ ~IsThrow(encoded)
    /\ decoded' = deserialize(encoded, colType, compatMode)
    /\ phase' = "loaded"
    /\ UNCHANGED <<serializableClasses, input, compatMode, encoded, colType>>
    /\ UNCHANGED <<ormVars, rowVars, auxVars>>

\* the values a row read from the database may hold in a column
StoredColumnValues ==
    {Num(0), Num(1), Num(5), Frac, Str("x"), StrJson(Obj([a |-> Num(1)])), Buf(<<65>>)}

\* findOne/findMany on a row this run did not write:
\* this.deserialize(found[col], col.type)
LoadColumn(v, t) ==
    /\ phase = "start"
    /\ colType' = t
    /\ encoded' = v
    /\ decoded' = deserialize(v, t, compatMode)
    /\ phase' = "read"
    /\ UNCHANGED <<serializableClasses, input, compatMode>>
    /\ UNCHANGED <<ormVars, rowVars, auxVars>>

CodecNext ==
    \/ \E c \in ClassNames : registerJsonSerializable(c)
    \/ \E v \in CodecInputs : Jsonify(v)
    \/ \E p \in Payloads : Receive(p)
    \/ Dejsonify
    \/ \E v \in ColumnValues, t \in ColumnTypes : SerializeColumn(v, t)
    \/ DeserializeColumn
    \/ \E v \in StoredColumnValues, t \in ColumnTypes : LoadColumn(v, t)

CodecSpec == CodecInit /\ [][CodecNext]_vars


\* ------------------------------------------------- schema registration runs
Row(name, type, pk, notnull, dflt) ==
    [name |-> name, type |-> type, notnull |-> notnull, dflt_value |-> dflt, pk |-> pk]
Table(t, info) == [NoTables EXCEPT ![t] = info]

\* the database files a process may be started on
InitialSchemas ==
    { NoTables,
      Table("User", << Row("id", "INTEGER", 1, 1, Num(-1)), Row("name", "TEXT", 0, 1, Str("")) >>),
      Table("User", << Row("uid", "INTEGER", 1, 1, NoValue), Row("name", "TEXT", 0, 1, Str("")) >>),
      Table("User", << Row("id", "INTEGER", 1, 1, Num(-1)), Row("full_name", "TEXT", 0, 1, Str("")) >>),
      Table("users", << Row("id", "INTEGER", 1, 1, Num(-1)), Row("name", "TEXT", 0, 1, Str("")) >>),
      [NoTables EXCEPT
          !["User"] = << Row("id", "INTEGER", 1, 1, Num(-1)), Row("name", "TEXT", 0, 1, Str("")) >>,
          !["aux.User"] = << Row("id", "INTEGER", 1, 1, Num(-1)), Row("name", "TEXT", 0, 1, Str("")) >>],
      [NoTables EXCEPT
          !["User"] = << Row("id", "INTEGER", 1, 1, Num(-1)), Row("name", "TEXT", 0, 1, Str("")) >>,
          !["users"] = << Row("uid", "INTEGER", 1, 1, NoValue), Row("name", "TEXT", 0, 1, Str("")) >>] }

Field(key, value) == [key |-> key, value |-> value]
Deco(key, data) == [key |-> key, kind |-> "column", data |-> data]
Ignore(key) == [key |-> key, kind |-> "ignoreColumn", data |-> [name |-> key]]
Class(cls, tableName, fields, decos, hasModel) ==
    [cls |-> cls, tableName |-> tableName, database |-> "main", fields |-> fields,
     decos |-> decos, hasModel |-> hasModel]
\* the class with @model(tableName, database)
InDatabase(d, database) == [d EXCEPT !.database = database]

\* the class declarations tried
Declarations ==
    { Class("User", NoName, << Field("name", Str("")) >>, << >>, TRUE),
      Class("User", NoName, << Field("name", Str("anon")) >>, << >>, TRUE),
      InDatabase(Class("User", NoName, << Field("name", Str("")) >>, << >>, TRUE), "aux"),
      Class("User", NoName, << Field("name", Str("")), Field("age", Num(0)) >>, << >>, TRUE),
      Class("User", "users", << Field("name", Str("")), Field("age", Num(0)) >>, << >>, TRUE),
      Class("User", NoName, << Field("name", Str("")), Field("age", Num(0)) >>,
            << Deco("name", [mappedTo |-> "full_name"]) >>, TRUE),
      Class("User", NoName, << Field("uid", Undef), Field("name", Str("")) >>,
            << Deco("uid", [type |-> "integer", isPrimaryKey |-> TRUE]) >>, TRUE),
      Class("User", NoName, << Field("uid", Num(0)), Field("name", Str("")) >>,
            << Deco("uid", [isPrimaryKey |-> TRUE]) >>, TRUE),
      Class("User", NoName, << Field("uid", Undef), Field("name", Str("")) >>,
            << Deco("uid", [type |-> "integer", isPrimaryKey |-> TRUE, mappedTo |-> "id"]) >>,
            TRUE),
      Class("User", NoName, << Field("name", Str("")), Field("age", Num(0)) >>,
            << Ignore("age") >>, TRUE),
      Class("User", NoName, << Field("name", Str("")), Field("bio", Null) >>,
            << Deco("name", [nullable |-> TRUE]) >>, TRUE),
      Class("User", NoName, << Field("draft", Str("")) >>,
            << Deco("draft", [nullable |-> TRUE]) >>, FALSE) }

\* the codec is not in use in these runs
CodecIdle ==
    /\ serializableClasses = << >>
    /\ input = NoValue
    /\ compatMode = FALSE
    /\ encoded = NoValue
    /\ decoded = NoValue
    /\ colType = "none"
    /\ phase = "start"

Init ==
    /\ CodecIdle
    /\ RowIdle
    /\ live \in InitialSchemas
    /\ OrmFresh
    /\ AuxIdle

Next ==
    \/ \E d \in Declarations : Declare(d)
    \/ \E d \in Declarations, cut \in 1..(MaxStatements - 1) : Interrupted(d, cut)
    \/ modelsLoaded
    \/ Restart

Spec == Init /\ [][Next]_vars

\* --------------------------------------------- builder.ts: row statements
\* model.columns.find((c) => c.name === col || c.mappedTo === col)
ModelColumn(model, col) ==
    model.columns[FirstIndex(model.columns, LAMBDA c : c.name = col \/ MappedTo(c) = col)]

\* data is Object.entries of the built data: a sequence of [col, value]
InsertStatement(model, kept) ==
    [k |-> "INSERT", table |-> model.tableName,
     cols |-> [i \in 1..Len(kept) |-> kept[i].col],
     marks |-> Len([i \in 1..Len(kept) |-> "?"]),
     params |-> [i \in 1..Len(kept) |-> kept[i].value]]

\* buildInsertQuery leaving every primary key out, autoincrement or not
buildInsertSkippingKeys(model, data) ==
    InsertStatement(model,
        SelectSeq(data, LAMBDA e : ~Truthy(ModelColumn(model, e.col), "isPrimaryKey")))

buildInsertQuery(model, data) ==
    InsertStatement(model,
        SelectSeq(data, LAMBDA e :
            ~(/\ Truthy(ModelColumn(model, e.col), "isPrimaryKey")
              /\ Truthy(ModelColumn(model, e.col), "autoIncrement"))))

\* the last entry of data whose column is a primary key, 0 when there is none
LastKeyEntry(model, data) ==
    IF \E i \in 1..Len(data) : Truthy(ModelColumn(model, data[i].col), "isPrimaryKey")
    THEN CHOOSE i \in 1..Len(data) :
            /\ Truthy(ModelColumn(model, data[i].col), "isPrimaryKey")
            /\ \A j \in (i + 1)..Len(data) :
                   ~Truthy(ModelColumn(model, data[j].col), "isPrimaryKey")
    ELSE 0

UpdateStatement(model, set, key, data) ==
    [k |-> "UPDATE", table |-> model.tableName,
     cols |-> [i \in 1..Len(set) |-> set[i].col],
     marks |-> Len([i \in 1..Len(set) |-> "?"]) + 1,
     primaryCol |-> IF key = 0 THEN NoName
                    ELSE PhysicalName(ModelColumn(model, data[key].col)),
     params |-> [i \in 1..Len(set) |-> set[i].value]
                    \o << IF key = 0 THEN Undef ELSE data[key].value >>]

\* buildUpdateQuery without the `continue` after the primary key is noted
buildUpdateKeepingKey(model, data) ==
    UpdateStatement(model, data, LastKeyEntry(model, data), data)

buildUpdateQuery(model, data) ==
    UpdateStatement(model,
        SelectSeq(data, LAMBDA e : ~Truthy(ModelColumn(model, e.col), "isPrimaryKey")),
        LastKeyEntry(model, data), data)

isProvidedTypeValid(provType, col) ==
    IF Truthy(col, "nullable") /\ IsNullish(provType) THEN TRUE
    ELSE IF typeof(provType) = "number" /\ ~IsFinite(provType) THEN FALSE
    ELSE CASE col.type = "string" -> typeof(provType) = "string"
           [] col.type = "boolean" ->
                typeof(provType) = "boolean" \/ provType = Num(0) \/ provType = Num(1)
           [] col.type = "integer" ->
                typeof(provType) = "number" /\ IsSafeInteger(provType)
           [] col.type = "number" -> typeof(provType) = "number"
           [] col.type = "json" -> typeof(provType) = "object" \/ provType.k = "array"
           [] col.type = "blob" -> provType.k = "Buffer"
           [] OTHER -> FALSE

\* query.where of a SelectQuery, NoValue when the query has none
WhereOf(query) == IF "where" \in DOMAIN query THEN query.where ELSE NoValue
\* buildBaseFilterQuery, for queries with a where clause `col = ?` or none, and no
\* order, limit or offset
buildBaseFilterQuery(query) ==
    [where |-> WhereOf(query),
     params |-> IF WhereOf(query) = NoValue THEN << >> ELSE << WhereOf(query).value >>]
\* model.database and model.tableName of an undefined model: a TypeError
buildSelectQuery(query, model) ==
    IF model = NoModel THEN Throw("TypeError")
    ELSE [k |-> "SELECT", table |-> model.tableName, database |-> model.database]
             @@ buildBaseFilterQuery(query)
buildDeleteQuery(query, model) ==
    IF model = NoModel THEN Throw("TypeError")
    ELSE [k |-> "DELETE", table |-> model.tableName, database |-> model.database]
             @@ buildBaseFilterQuery(query)
buildCountWhereQuery(query, model) ==
    IF model = NoModel \/ WhereOf(query) = NoValue THEN Throw("TypeError")
    ELSE [k |-> "COUNT", table |-> model.tableName, database |-> model.database,
          where |-> query.where, params |-> << query.where.value >>]
buildAggregateQuery(query, model) ==
    IF model = NoModel THEN Throw("TypeError")
    ELSE [k |-> "AGGREGATE", table |-> model.tableName, database |-> model.database,
          select |-> query.select, group |-> query.group, where |-> WhereOf(query),
          params |-> IF WhereOf(query) = NoValue THEN << >> ELSE << WhereOf(query).value >>]

\* ------------------------------------------------------- statement builder runs
\* registered models, as model() leaves them in this.models
Col(name, type, dflt, pk, auto) ==
    [name |-> name, type |-> type, defaultValue |-> dflt, nullable |-> FALSE,
     isPrimaryKey |-> pk, autoIncrement |-> auto]
BuilderModels ==
    { Model("User", << Col("id", "integer", Num(-1), TRUE, TRUE),
                       Col("name", "string", Str(""), FALSE, FALSE),
                       Col("age", "integer", Num(0), FALSE, FALSE) >>, "main"),
      Model("Member", << Col("name", "string", Str(""), FALSE, FALSE)
                            @@ [mappedTo |-> "full_name"],
                         Col("uid", "integer", Undef, TRUE, FALSE) >>, "main"),
      Model("Entry", << Col("key", "string", Undef, TRUE, FALSE) @@ [mappedTo |-> "k"],
                        Col("value", "string", Str(""), FALSE, FALSE) >>, "main"),
      Model("Log", << Col("name", "string", Str(""), FALSE, FALSE),
                      Col("age", "integer", Num(0), FALSE, FALSE) >>, "main"),
      Model("Tag", << Col("id", "integer", Num(-1), TRUE, TRUE) >>, "main") }

\* the serialized values a column of a type may hold
StoredValues(type) ==
    IF type = "integer" THEN {Num(1), Num(2), Num(3)} ELSE {Str("a"), Str("b"), Str("")}

\* the built data of save (lines 333-339): one entry per column, in column order,
\* under the column's physical name
BuiltDatas(model) ==
    { d \in [1..Len(model.columns) ->
                UNION { [col : {PhysicalName(c)}, value : StoredValues(c.type)] :
                          c \in {model.columns[i] : i \in 1..Len(model.columns)} }] :
        \A i \in 1..Len(model.columns) :
            /\ d[i].col = PhysicalName(model.columns[i])
            /\ d[i].value \in StoredValues(model.columns[i].type) }

BuildInsert(model, data) ==
    /\ builder' = [op |-> "insert", model |-> model, data |-> data,
                   query |-> buildInsertQuery(model, data)]
    /\ UNCHANGED <<codecVars, ormVars, rowVars, store, backupVars>>

BuildUpdate(model, data) ==
    /\ builder' = [op |-> "update", model |-> model, data |-> data,
                   query |-> buildUpdateQuery(model, data)]
    /\ UNCHANGED <<codecVars, ormVars, rowVars, store, backupVars>>

BuilderInit ==
    /\ CodecIdle
    /\ OrmIdle
    /\ RowIdle
    /\ AuxIdle

BuilderNext ==
    \/ \E model \in BuilderModels : \E data \in BuiltDatas(model) : BuildInsert(model, data)
    \/ \E model \in BuilderModels : \E data \in BuiltDatas(model) : BuildUpdate(model, data)

BuilderSpec == BuilderInit /\ [][BuilderNext]_vars

\* --------------------------------------------------------- registry runs
\* several classes declared one after the other on one SqliteOrm over an empty
\* database: with an ignored property, with a null property whose type cannot
\* be inferred (model() throws at 462-465), with two primary keys (the second
\* decorator throws at 377-384), and plain ones
RegistryDeclarations ==
    { Class("User", NoName, << Field("name", Str("")), Field("age", Num(0)) >>,
            << Ignore("age") >>, TRUE),
      Class("User", NoName, << Field("name", Str("")) >>, << >>, TRUE),
      Class("Flag", NoName, << Field("label", Str("")), Field("age", Num(0)) >>, << >>, TRUE),
      Class("Flag", NoName, << Field("on", Bool(FALSE)) >>, << >>, TRUE),
      Class("Flag", NoName, << Field("tag", Num(0)) >>, << >>, TRUE),
      Class("Tag", NoName, << Field("tag", Str("")), Field("note", Null) >>, << >>, TRUE),
      Class("Tag", NoName, << Field("key", Undef), Field("alt", Undef) >>,
            << Deco("key", [type |-> "string", isPrimaryKey |-> TRUE]),
               Deco("alt", [type |-> "string", isPrimaryKey |-> TRUE]) >>, TRUE),
      Class("Tag", NoName, << Field("tag", Str("")) >>, << >>, TRUE) }

RegistryNext == \E d \in RegistryDeclarations : Declare(d)

RegistrySpec == BuilderInit /\ [][RegistryNext]_vars

\* ------------------------------------------------------- type guard runs
\* the values given to the guard, and the columns: every type, declared
\* nullable, declared not nullable, and with nullable left out
GuardValues ==
    {Null, Undef, Bool(TRUE), Bool(FALSE), Num(0), Num(1), Num(5), Num(-1), Frac, NaN,
     Infinity, Pow53, Str(""), Str("x"), Str("1"), Obj(EmptyProps), Obj([a |-> Num(1)]),
     Arr(<< >>), Arr(<<Num(1)>>), Buf(<< >>), Buf(<<65>>), MapV(<< >>), Fn, Sym, Big}
GuardColumns ==
    {[name |-> "c", type |-> t, nullable |-> n] : t \in ColumnTypes, n \in BOOLEAN}
        \cup {[name |-> "c", type |-> t] : t \in ColumnTypes}

CheckType(provType, col) ==
    /\ builder' = [op |-> "isProvidedTypeValid", model |-> NoModel,
                   data |-> <<[value |-> provType, col |-> col]>>,
                   query |-> Bool(isProvidedTypeValid(provType, col))]
    /\ UNCHANGED <<codecVars, ormVars, rowVars, store, backupVars>>

GuardNext == \E provType \in GuardValues, col \in GuardColumns : CheckType(provType, col)

GuardSpec == BuilderInit /\ [][GuardNext]_vars

\* ------------------------------------------------------------ snapshot runs
\* registered models by class, as model() leaves them; NoModel: the class is not
\* registered
SnapshotModels ==
    [User : {NoModel,
             Model("User", << Col("id", "integer", Num(-1), TRUE, TRUE),
                              Col("name", "string", Str(""), FALSE, FALSE) >>, "main"),
             Model("users", << Col("id", "integer", Num(-1), TRUE, TRUE),
                               Col("meta", "json", Obj([a |-> Num(1)]), FALSE, FALSE) >>,
                   "main"),
             Model("User", << Col("id", "integer", Num(-1), TRUE, TRUE),
                              Col("meta", "json", MapV(<< >>), FALSE, FALSE) >>, "main"),
             Model("User", << Col("id", "integer", Num(-1), TRUE, TRUE),
                              Col("score", "integer", NaN, FALSE, FALSE) >>, "main"),
             Model("User", << Col("id", "integer", Num(-1), TRUE, TRUE),
                              Col("data", "blob", Buf(<<1>>), FALSE, FALSE) >>, "main"),
             Model("User", << [Col("uid", "integer", Undef, TRUE, FALSE)
                                  EXCEPT !.nullable = TRUE],
                              Col("name", "string", Str(""), FALSE, FALSE)
                                  @@ [mappedTo |-> "full_name"] >>, "main")},
     Flag : {NoModel,
             Model("Flag", << Col("id", "integer", Num(-1), TRUE, TRUE),
                              Col("on", "boolean", Bool(FALSE), FALSE, FALSE) >>, "main"),
             Model("Flag", << Col("id", "integer", Num(-1), TRUE, TRUE),
                              [Col("label", "string", Null, FALSE, FALSE)
                                  EXCEPT !.nullable = TRUE] >>, "aux")},
     Tag : {NoModel,
            Model("Tag", << Col("id", "integer", Num(-1), TRUE, TRUE) >>, "main")}]

\* saveModel(), 819-821: ModelReader.write(this.models, this.opts.dbPath)
saveModel ==
    /\ store' = [store EXCEPT !.written = TRUE, !.file = write(models), !.got = NoValue]
    /\ UNCHANGED <<codecVars, ormVars, rowVars, builder, backupVars>>

\* ModelReader.read(options.dbPath), as the constructor calls it (223)
Read ==
    /\ store.got = NoValue
    /\ store' = [store EXCEPT !.got = read(store.file)]
    /\ UNCHANGED <<codecVars, ormVars, rowVars, builder, backupVars>>

SnapshotInit ==
    /\ CodecIdle
    /\ RowIdle
    /\ AuxIdle
    /\ live = NoTables
    /\ models \in SnapshotModels
    /\ tempModelData = << >>
    /\ ignoredColumns = {}
    /\ hasModelChanges = FALSE
    /\ lastModels = NoModels
    /\ snapshot = NoModels
    /\ backupTaken = FALSE
    /\ applied = NoModels
    /\ evaluated = {}
    /\ runs = 1
    /\ last = NoRegistration

SnapshotNext ==
    \/ saveModel
    \/ Read

SnapshotSpec == SnapshotInit /\ [][SnapshotNext]_vars

\* ------------------------------------------- the SQL engine (prepare, run, get)
ColumnNames(info) == {info[i].name : i \in 1..Len(info)}
IndexIn(seq, x) == FirstIndex(seq, LAMBDA y : y = x)
\* the INTEGER PRIMARY KEY column of a table, an alias of the rowid; 0: none
RowidAlias(info) == FirstIndex(info, LAMBDA c : c.pk = 1 /\ c.type = "INTEGER")
MaxRowid(rs) ==
    IF rs = << >> THEN 0
    ELSE CHOOSE m \in {rs[i].rowid : i \in 1..Len(rs)} : \A i \in 1..Len(rs) : rs[i].rowid <= m

\* the value an INSERT gives column c: the parameter, or the column's default
Supplied(c, cols, params, alias) ==
    IF IndexIn(cols, c.name) > 0 THEN params[IndexIn(cols, c.name)]
    ELSE IF alias \/ c.dflt_value = NoValue THEN Null
    ELSE c.dflt_value

\* the rowid an INSERT gives its row
NewRowid(info, rs, cols, params) ==
    IF RowidAlias(info) = 0 THEN MaxRowid(rs) + 1
    ELSE IF Supplied(info[RowidAlias(info)], cols, params, TRUE) = Null
    THEN MaxRowid(rs) + 1
    ELSE Supplied(info[RowidAlias(info)], cols, params, TRUE).n

Rejected(rs) == [ok |-> FALSE, rows |-> rs, rowid |-> 0]

InsertedRow(info, cols, params, rowid) ==
    [rowid |-> rowid,
     vals |-> [n \in ColumnNames(info) |->
                 IF RowidAlias(info) > 0 /\ info[RowidAlias(info)].name = n THEN Num(rowid)
                 ELSE Supplied(info[FirstIndex(info, LAMBDA c : c.name = n)],
                               cols, params, FALSE)]]

\* an INSERT INTO table (cols) VALUES (params) on a table of schema info holding rs
Insert(info, rs, cols, params) ==
    IF \/ cols = << >>
       \/ info = << >>
       \/ \E i \in 1..Len(cols) : cols[i] \notin ColumnNames(info)
    THEN Rejected(rs)
    ELSE IF /\ RowidAlias(info) > 0
            /\ Supplied(info[RowidAlias(info)], cols, params, TRUE) # Null
            /\ ~IsInteger(Supplied(info[RowidAlias(info)], cols, params, TRUE))
    THEN Rejected(rs)
    ELSE IF \E i \in 1..Len(rs) : rs[i].rowid = NewRowid(info, rs, cols, params)
    THEN Rejected(rs)
    ELSE IF \E i \in 1..Len(info) :
               /\ i # RowidAlias(info)
               /\ info[i].notnull = 1
               /\ Supplied(info[i], cols, params, FALSE) = Null
    THEN Rejected(rs)
    ELSE [ok |-> TRUE,
          rows |-> Append(rs, InsertedRow(info, cols, params,
                                          NewRowid(info, rs, cols, params))),
          rowid |-> NewRowid(info, rs, cols, params)]

\* an UPDATE table SET cols = params WHERE primaryCol = the last parameter
Update(info, rs, q) ==
    IF \/ q.cols = << >>
       \/ info = << >>
       \/ q.primaryCol \notin ColumnNames(info)
       \/ \E i \in 1..Len(q.cols) : q.cols[i] \notin ColumnNames(info)
    THEN Rejected(rs)
    ELSE [ok |-> TRUE,
          rows |-> [i \in 1..Len(rs) |->
                      IF rs[i].vals[q.primaryCol] = q.params[Len(q.params)]
                         /\ ~IsNullish(q.params[Len(q.params)])
                      THEN [rs[i] EXCEPT !.vals =
                               [n \in DOMAIN @ |->
                                  IF IndexIn(q.cols, n) > 0 THEN q.params[IndexIn(q.cols, n)]
                                  ELSE @[n]]]
                      ELSE rs[i]],
          rowid |-> 0]

\* SELECT * FROM table WHERE col = val LIMIT 1: the index of the row, 0 when none
SelectOne(rs, col, val) ==
    FirstIndex(rs, LAMBDA r : col \in DOMAIN r.vals /\ r.vals[col] = val /\ val # Null)

\* the rows of rs a where clause `col = ?` selects (all of them without a clause)
Matching(rs, where) ==
    SelectSeq(rs, LAMBDA r : where = NoValue \/ r.vals[where.col] = where.value)
\* does the engine reject a statement on a table of schema info
NoSuchTableOrColumn(info, q) ==
    \/ info = << >>
    \/ (q.where # NoValue /\ q.where.col \notin ColumnNames(info))
    \/ ("group" \in DOMAIN q /\ \E i \in 1..Len(q.group) : q.group[i] \notin ColumnNames(info))
\* SELECT * ... : all()
SelectAll(info, rs, q) ==
    IF NoSuchTableOrColumn(info, q) THEN [ok |-> FALSE, rows |-> << >>]
    ELSE [ok |-> TRUE, rows |-> Matching(rs, q.where)]
\* DELETE FROM ... : run()
DeleteWhere(info, rs, q) ==
    IF NoSuchTableOrColumn(info, q) THEN Rejected(rs)
    ELSE [ok |-> TRUE, rowid |-> 0,
          rows |-> SelectSeq(rs, LAMBDA r :
                       ~(q.where = NoValue \/ r.vals[q.where.col] = q.where.value))]
\* SELECT COUNT(*) ... GROUP BY col: one [group, count] per value of the column
Grouped(rs, col) ==
    {[group |-> v, count |-> Len(SelectSeq(rs, LAMBDA r : r.vals[col] = v))] :
        v \in {rs[i].vals[col] : i \in 1..Len(rs)}}

\* ------------------------------------------------ SqliteOrm: row operations
\* the class declarations of the programs that work on rows
RowDeclarations ==
    { Class("User", NoName, << Field("name", Str("")) >>, << >>, TRUE),
      Class("Flag", NoName, << Field("on", Undef), Field("label", Str("")) >>,
            << Deco("on", [type |-> "boolean", isPrimaryKey |-> TRUE]) >>, TRUE),
      Class("Tag", NoName, << >>, << >>, TRUE) }
DeclarationOf(cls) == CHOOSE d \in RowDeclarations : d.cls = cls

\* new cls(): an object is its properties, _new among them
NewObject(cls) ==
    [cls |-> cls,
     props |-> [key \in {Instance(DeclarationOf(cls))[i].key :
                            i \in 1..Len(Instance(DeclarationOf(cls)))} |->
                   ValueOf(Instance(DeclarationOf(cls)), key)]]
Prop(obj, key) == IF key \in DOMAIN obj.props THEN obj.props[key] ELSE Undef
IsNew(obj) == Prop(obj, "_new") = Bool(TRUE)

PrimaryKeyColumn(model) == FirstIndex(model.columns, LAMBDA c : Truthy(c, "isPrimaryKey"))
IncrementPrimaryKey(model) ==
    FirstIndex(model.columns,
               LAMBDA c : Truthy(c, "isPrimaryKey") /\ Truthy(c, "autoIncrement"))

\* save, lines 333-339: the built data as its entries, in column order
BuiltData(model, obj) ==
    [i \in 1..Len(model.columns) |->
        [col |-> PhysicalName(model.columns[i]),
         value |-> serialize(Prop(obj, model.columns[i].name), model.columns[i].type)]]
FirstThrown(data) == FirstIndex(data, LAMBDA e : IsThrow(e.value))

Saved(obj, rs, stmts, result, rowid) ==
    [obj |-> obj, rows |-> rs, stmts |-> stmts, result |-> result, rowid |-> rowid]

\* save, lines 345-350, with the new mark left in place
AfterInsertStillNew(obj, model, rowid) ==
    IF IncrementPrimaryKey(model) = 0 THEN obj
    ELSE [obj EXCEPT !.props =
             Overlay(@, model.columns[IncrementPrimaryKey(model)].name :> Num(rowid))]

\* save, lines 345-350: the key written back, the new mark cleared
AfterInsert(obj, model, rowid) ==
    [obj EXCEPT !.props =
        Overlay(IF IncrementPrimaryKey(model) = 0 THEN @
                ELSE Overlay(@, model.columns[IncrementPrimaryKey(model)].name
                                    :> Num(rowid)),
                "_new" :> Bool(FALSE))]

\* save, lines 341-350: r is the engine's answer to the INSERT
SavedNew(obj, model, rs, r) ==
    IF ~r.ok THEN Saved(obj, rs, << >>, "SqliteError", 0)
    ELSE Saved(AfterInsert(obj, model, r.rowid), r.rows, <<"INSERT">>, "ok", r.rowid)

\* save, lines 351-354: r is the engine's answer to the UPDATE
SavedOld(obj, rs, r) ==
    IF ~r.ok THEN Saved(obj, rs, << >>, "SqliteError", 0)
    ELSE Saved(obj, r.rows, <<"UPDATE">>, "ok", 0)

SaveData(obj, model, info, rs, data) ==
    IF FirstThrown(data) > 0 THEN Saved(obj, rs, << >>, data[FirstThrown(data)].value.err, 0)
    ELSE IF IsNew(obj)
    THEN SavedNew(obj, model, rs,
                  Insert(info, rs, buildInsertQuery(model, data).cols,
                         buildInsertQuery(model, data).params))
    ELSE SavedOld(obj, rs, Update(info, rs, buildUpdateQuery(model, data)))

\* save(obj), lines 329-358, on database schema lv and content rws
save(obj, lv, rws) ==
    IF models[obj.cls] = NoModel THEN Saved(obj, << >>, << >>, "DBModelNotFound", 0)
    ELSE SaveData(obj, models[obj.cls], lv[models[obj.cls].tableName],
                  rws[models[obj.cls].tableName],
                  BuiltData(models[obj.cls], obj))

Found(result, stmts, returned) ==
    [result |-> result, stmts |-> stmts, returned |-> returned]

\* findOne, lines 261-270: the columns of the row found, deserialized
ParsedColumns(model, row) ==
    [i \in 1..Len(model.columns) |->
        [key |-> model.columns[i].name,
         value |-> deserialize(row.vals[PhysicalName(model.columns[i])],
                               model.columns[i].type, FALSE)]]
Parsed(cls, parsed) ==
    IF FirstIndex(parsed, LAMBDA e : IsThrow(e.value)) > 0
    THEN Found("DBInvalidData", <<"SELECT">>, NoValue)
    ELSE Found("ok", <<"SELECT">>,
               [NewObject(cls) EXCEPT !.props =
                   [key \in (DOMAIN @) \cup {parsed[i].key : i \in 1..Len(parsed)} |->
                      IF key = "_new" THEN Bool(FALSE)
                      ELSE IF \E i \in 1..Len(parsed) : parsed[i].key = key
                      THEN ValueOf(parsed, key)
                      ELSE @[key]]])

\* findOne, lines 237-270: param is serialize(id, col.type)
Selected(cls, model, rs, col, param) ==
    IF IsThrow(param) THEN Found(param.err, << >>, NoValue)
    ELSE IF SelectOne(rs, PhysicalName(col), param) = 0
    THEN Found("DBNotFound", <<"SELECT">>, NoValue)
    ELSE Parsed(cls, ParsedColumns(model, rs[SelectOne(rs, PhysicalName(col), param)]))

\* findOne(table, id) for a primitive id, lines 228-271
findOne(cls, id, rws) ==
    IF models[cls] = NoModel THEN Found("DBModelNotFound", << >>, NoValue)
    ELSE IF PrimaryKeyColumn(models[cls]) = 0 THEN Found("DBInvalidTable", << >>, NoValue)
    ELSE IF ~isProvidedTypeValid(id, models[cls].columns[PrimaryKeyColumn(models[cls])])
    THEN Found("DBInvalidData", << >>, NoValue)
    ELSE Selected(cls, models[cls], rws[models[cls].tableName],
                  models[cls].columns[PrimaryKeyColumn(models[cls])],
                  serialize(id, models[cls].columns[PrimaryKeyColumn(models[cls])].type))

\* findOneOptional(table, id), lines 273-285
Caught(cls, found) ==
    IF found.result = "DBNotFound" THEN Found("ok", found.stmts, NewObject(cls))
    ELSE found
findOneOptional(cls, id, rws) == Caught(cls, findOne(cls, id, rws))

\* findMany, lines 294-304: every row found, deserialized into a new object
ParsedAll(cls, model, found) ==
    [i \in 1..Len(found) |-> Parsed(cls, ParsedColumns(model, found[i]))]
ManyFound(all) ==
    IF FirstIndex(all, LAMBDA f : f.result # "ok") > 0
    THEN Found("DBInvalidData", <<"SELECT">>, NoValue)
    ELSE Found("ok", <<"SELECT">>, [i \in 1..Len(all) |-> all[i].returned])
ManySelected(cls, model, r) ==
    IF ~r.ok THEN Found("SqliteError", << >>, NoValue)
    ELSE ManyFound(ParsedAll(cls, model, r.rows))

\* findMany(table, query), lines 286-307
findMany(cls, query, lv, rws) ==
    IF models[cls] = NoModel THEN Found("DBModelNotFound", << >>, NoValue)
    ELSE ManySelected(cls, models[cls],
                      SelectAll(lv[models[cls].tableName], rws[models[cls].tableName],
                                buildSelectQuery(query, models[cls])))

\* countWhere(table, query), lines 309-317
countWhere(cls, query, lv, rws) ==
    IF models[cls] = NoModel THEN Found("DBModelNotFound", << >>, NoValue)
    ELSE IF IsThrow(buildCountWhereQuery(query, models[cls]))
    THEN Found("TypeError", << >>, NoValue)
    ELSE IF NoSuchTableOrColumn(lv[models[cls].tableName],
                                buildCountWhereQuery(query, models[cls]))
    THEN Found("SqliteError", << >>, NoValue)
    ELSE Found("ok", <<"SELECT">>,
               Num(Len(Matching(rws[models[cls].tableName], query.where))))

\* aggregateSelect(table, query), lines 319-327
aggregateSelect(cls, query, lv, rws) ==
    IF models[cls] = NoModel THEN Found("DBModelNotFound", << >>, NoValue)
    ELSE IF NoSuchTableOrColumn(lv[models[cls].tableName],
                                buildAggregateQuery(query, models[cls]))
    THEN Found("SqliteError", << >>, NoValue)
    ELSE Found("ok", <<"SELECT">>,
               Grouped(Matching(rws[models[cls].tableName], WhereOf(query)),
                       query.group[1]))

Deleted(rs, stmts, result) == [rows |-> rs, stmts |-> stmts, result |-> result]
DeleteRun(rs, r) ==
    IF ~r.ok THEN Deleted(rs, << >>, "SqliteError") ELSE Deleted(r.rows, <<"DELETE">>, "ok")
\* delete(table, query), lines 360-364: this.models[table.name] is not looked at
\* before buildDeleteQuery reads its fields
delete(cls, query, lv, rws) ==
    IF IsThrow(buildDeleteQuery(query, models[cls]))
    THEN Deleted(<< >>, << >>, buildDeleteQuery(query, models[cls]).err)
    ELSE DeleteRun(rws[models[cls].tableName],
                   DeleteWhere(lv[models[cls].tableName], rws[models[cls].tableName],
                               buildDeleteQuery(query, models[cls])))

\* ------------------------------------------------------------- row runs
\* the rows a table may hold
MaxRows == 2
\* the primary keys looked up
Ids == {Num(1), Str("x")}
\* the values the program gives a name
Names == {Num(5)}

Noted(op, cls, slot, arg, wasNew, res) ==
    [op |-> op, cls |-> cls, slot |-> slot, arg |-> arg, wasNew |-> wasNew,
     model |-> models[cls],
     before |-> IF models[cls] = NoModel THEN << >> ELSE rows[models[cls].tableName],
     stmts |-> res.stmts, result |-> res.result,
     rowid |-> IF "rowid" \in DOMAIN res THEN res.rowid ELSE 0,
     returned |-> IF "returned" \in DOMAIN res THEN res.returned ELSE NoValue]

\* the program makes an object, new cls(), kept in the first free slot
New(o, cls) ==
    /\ objects[o] = NoValue
    /\ \A p \in 1..(o - 1) : objects[p] # NoValue
    /\ objects' = [objects EXCEPT ![o] = NewObject(cls)]
    /\ done' = [NoOperation EXCEPT !.op = "new", !.cls = cls, !.slot = o]
    /\ UNCHANGED <<rows, hasChangesSinceBackup, sinceBackup, inserts, codecVars, ormVars, auxVars>>

\* the program sets a property of an object of its own
Assign(o, v) ==
    /\ objects[o] # NoValue
    /\ "name" \in DOMAIN objects[o].props
    /\ objects[o].props["name"] # v
    /\ objects' = [objects EXCEPT ![o].props["name"] = v]
    /\ done' = [NoOperation EXCEPT !.op = "assign", !.cls = objects[o].cls, !.slot = o]
    /\ UNCHANGED <<rows, hasChangesSinceBackup, sinceBackup, inserts, codecVars, ormVars, auxVars>>

Save(o) ==
    LET res == save(objects[o], live, rows)
        table == models[objects[o].cls].tableName
    IN  /\ objects[o] # NoValue
        /\ models[objects[o].cls] # NoModel =>
               (IsNew(objects[o]) => Len(rows[table]) < MaxRows)
        /\ objects' = [objects EXCEPT ![o] = res.obj]
        /\ rows' = IF res.result = "ok" THEN [rows EXCEPT ![table] = res.rows] ELSE rows
        /\ hasChangesSinceBackup' = (hasChangesSinceBackup \/ res.result = "ok")
        /\ sinceBackup' = (sinceBackup \/ res.result = "ok")
        /\ inserts' = [inserts EXCEPT ![o] = @ + Len(SelectSeq(res.stmts,
                                                    LAMBDA x : x = "INSERT"))]
        /\ done' = Noted("save", objects[o].cls, o, NoValue, IsNew(objects[o]), res)
        /\ UNCHANGED <<codecVars, ormVars, auxVars>>

FindOne(cls, id) ==
    /\ done' = Noted("findOne", cls, 0, id, FALSE, findOne(cls, id, rows))
    /\ UNCHANGED <<rows, objects, hasChangesSinceBackup, sinceBackup, inserts, codecVars, ormVars, auxVars>>

FindOneOptional(cls, id) ==
    /\ done' = Noted("findOneOptional", cls, 0, id, FALSE, findOneOptional(cls, id, rows))
    /\ UNCHANGED <<rows, objects, hasChangesSinceBackup, sinceBackup, inserts, codecVars, ormVars, auxVars>>

\* the queries tried: a where clause on a column, or none
Queries == {[where |-> [col |-> "name", value |-> Str("")]], [limit |-> Undef]}
WhereQueries == {q \in Queries : WhereOf(q) # NoValue}
AggregateQueries == {[select |-> "COUNT(*)", group |-> <<"name">>]}

FindMany(cls, query) ==
    /\ done' = Noted("findMany", cls, 0, query, FALSE, findMany(cls, query, live, rows))
    /\ UNCHANGED <<rows, objects, hasChangesSinceBackup, sinceBackup, inserts, codecVars, ormVars, auxVars>>

CountWhere(cls, query) ==
    /\ done' = Noted("countWhere", cls, 0, query, FALSE, countWhere(cls, query, live, rows))
    /\ UNCHANGED <<rows, objects, hasChangesSinceBackup, sinceBackup, inserts, codecVars, ormVars, auxVars>>

AggregateSelect(cls, query) ==
    /\ done' = Noted("aggregateSelect", cls, 0, query, FALSE,
                     aggregateSelect(cls, query, live, rows))
    /\ UNCHANGED <<rows, objects, hasChangesSinceBackup, sinceBackup, inserts, codecVars, ormVars, auxVars>>

Delete(cls, query) ==
    LET res == delete(cls, query, live, rows)
    IN  /\ rows' = IF res.result = "ok"
                   THEN [rows EXCEPT ![models[cls].tableName] = res.rows] ELSE rows
        /\ hasChangesSinceBackup' = (hasChangesSinceBackup \/ res.result = "ok")
        /\ sinceBackup' = (sinceBackup \/ res.result = "ok")
        /\ done' = Noted("delete", cls, 0, query, FALSE, res)
        /\ UNCHANGED <<objects, inserts, codecVars, ormVars, auxVars>>

RowInit ==
    /\ CodecIdle
    /\ RowIdle
    /\ live = NoTables
    /\ OrmFresh
    /\ AuxIdle

RowNext ==
    \/ \E d \in RowDeclarations : Declare(d)
    \/ \E o \in Slots, cls \in ModelClasses : New(o, cls)
    \/ \E o \in Slots, v \in Names : Assign(o, v)
    \/ \E o \in Slots : Save(o)
    \/ \E cls \in ModelClasses, id \in Ids : FindOne(cls, id)
    \/ \E cls \in ModelClasses, id \in Ids : FindOneOptional(cls, id)

RowSpec == RowInit /\ [][RowNext]_vars

\* a program that holds one object and uses every row operation
QueryNext ==
    \/ \E d \in RowDeclarations : Declare(d)
    \/ \E cls \in ModelClasses : New(1, cls)
    \/ Save(1)
    \/ \E cls \in ModelClasses, id \in Ids : FindOne(cls, id)
    \/ \E cls \in ModelClasses, id \in Ids : FindOneOptional(cls, id)
    \/ \E cls \in ModelClasses, q \in Queries : FindMany(cls, q)
    \/ \E cls \in ModelClasses, q \in WhereQueries : CountWhere(cls, q)
    \/ \E cls \in ModelClasses, q \in AggregateQueries : AggregateSelect(cls, q)
    \/ \E cls \in ModelClasses, q \in Queries : Delete(cls, q)

QuerySpec == RowInit /\ [][QueryNext]_vars

\* a program that saves and deletes rows of one model while backups are made
BackupNext ==
    \/ Declare(DeclarationOf("User"))
    \/ New(1, "User")
    \/ Save(1)
    \/ \E q \in Queries : Delete("User", q)
    \/ \E type \in BackupTypes : DoBackup(type)
    \/ Tick

BackupSpec == RowInit /\ [][BackupNext]_vars

\* ================================================================ claims

\* ---- C1
Introspected(info, name) == \E i \in 1..Len(info) : info[i].name = name
\* the declared columns with no introspected column of their name or mappedTo
Unmatched(info, columns) ==
    SelectSeq(columns,
              LAMBDA c : /\ ~Introspected(info, c.name)
                         /\ ~(Has(c, "mappedTo") /\ Introspected(info, c.mappedTo)))
AltersPlanned ==
    /\ last.stage = "reconciled"
    /\ last.path = "alter"
    /\ last.result \in {"ok", "killed", "SqliteError"}

\* C1: when a registration finds its table and buildAlterQuery returns, what it
\* returns is one ALTER TABLE ... ADD COLUMN for each declared column that has no
\* introspected column matching its name or its mappedTo, in declaration order, on
\* the declared table, and nothing else; so a declared model with columns a and b
\* against an introspected table holding a and not b gets exactly one ADD COLUMN,
\* for b, and none for a.
C1_AddsExactlyMissing ==
    AltersPlanned =>
        /\ Len(last.planned) = Len(Unmatched(last.info, last.built.columns))
        /\ \A i \in 1..Len(last.planned) :
               /\ last.planned[i].k = "ALTER"
               /\ last.planned[i].table = last.built.tableName
               /\ last.planned[i].column.name
                      = Unmatched(last.info, last.built.columns)[i].name

\* a model declaring name and age, same key as the table, the table holding name and
\* not age: one statement, ADD COLUMN age
C1_Witness ==
    /\ AltersPlanned
    /\ last.result = "ok"
    /\ PrimaryKeyName(last.built.columns) = "id"
    /\ Introspected(last.info, "id")
    /\ Introspected(last.info, "name")
    /\ ~Introspected(last.info, "age")
    /\ \E i \in 1..Len(last.built.columns) : last.built.columns[i].name = "name"
    /\ Len(last.stmts) = 1
    /\ last.stmts[1].k = "ALTER"
    /\ last.stmts[1].column.name = "age"

\* ---- C2
\* the name of the primary-key column of a table, NoName when it has none
LivePrimaryKey(info) ==
    IF FirstIndex(info, LAMBDA r : r.pk = 1) = 0 THEN NoName
    ELSE info[FirstIndex(info, LAMBDA r : r.pk = 1)].name

\* the table of the registered model existed, with a primary key of another name
\* than the model's
KeysDiffer ==
    /\ last.stage = "reconciled"
    /\ last.result # "killed"
    /\ last.before[TableKey(last.built.database, last.built.tableName)] # << >>
    /\ PrimaryKeyName(last.built.columns) # NoName
    /\ LivePrimaryKey(last.before[TableKey(last.built.database, last.built.tableName)]) # NoName
    /\ PrimaryKeyName(last.built.columns)
           # LivePrimaryKey(last.before[TableKey(last.built.database, last.built.tableName)])

\* C2: when the primary-key column of the declared model differs by name from the
\* primary-key column of the model's existing table, the registration fails with an
\* error and leaves the live schema as it was.
C2_PrimaryKeyConflictFails ==
    KeysDiffer => (last.result # "ok" /\ live = last.before)

\* ---- C3
\* a statement of the last registration that creates a table, or adds a column,
\* that existed before it
Redundant(stmt) ==
    IF stmt.k = "CREATE" THEN last.before[TableKey(stmt.database, stmt.table)] # << >>
    ELSE Introspected(last.before[TableKey(stmt.database, stmt.table)], stmt.column.name)

\* C3: registering again a declared model whose registration ran before on this
\* database (to its end, or killed after some of its statements) executes no
\* statement for a table or a column that exists, and does not fail.
C3_ReRegistrationIdempotent ==
    (last.stage = "reconciled" /\ last.again) =>
        /\ last.result \in {"ok", "killed"}
        /\ \A i \in 1..Len(last.stmts) : ~Redundant(last.stmts[i])

\* ---- C11
\* the entries of the data a builder was given whose column satisfies P
EntriesWhere(P(_)) ==
    {i \in 1..Len(builder.data) :
        \E j \in 1..Len(builder.model.columns) :
            /\ PhysicalName(builder.model.columns[j]) = builder.data[i].col
            /\ P(builder.model.columns[j])}
\* the query lists the entries of kept, in the order supplied, each with its value
ListsInOrder(kept) ==
    /\ Len(builder.query.cols) = Cardinality(kept)
    /\ \A j \in kept :
           /\ builder.query.cols[Cardinality({k \in kept : k <= j})] = builder.data[j].col
           /\ builder.query.params[Cardinality({k \in kept : k <= j})] = builder.data[j].value
IsAutoKey(c) == Truthy(c, "isPrimaryKey") /\ Truthy(c, "autoIncrement")
IsKey(c) == Truthy(c, "isPrimaryKey")

\* C11: buildInsertQuery lists every supplied column except an autoincrement primary
\* key, in the order supplied; it writes one ? per listed column, gives one parameter
\* per listed column, and the i-th parameter is the value of the i-th listed column.
C11_InsertListsAllButAutoKey ==
    builder.op = "insert" =>
        /\ ListsInOrder(EntriesWhere(LAMBDA c : ~IsAutoKey(c)))
        /\ builder.query.marks = Len(builder.query.cols)
        /\ Len(builder.query.params) = Len(builder.query.cols)

\* an insert built for a model with an autoincrement key: the key left out, the rest kept
C11_Witness ==
    /\ builder.op = "insert"
    /\ EntriesWhere(IsAutoKey) # {}
    /\ Len(builder.data) = 3
    /\ builder.query.cols = <<"name", "age">>
    /\ builder.query.params = <<Str("a"), Num(2)>>

\* ---- C12
\* C12: for a model with a primary key, buildUpdateQuery puts every supplied column
\* except the primary key into SET, in the order supplied, and never the key; the
\* WHERE predicate is the key under its physical name; the parameters are the SET
\* values in SET order followed by the key's value, once, as the last element.
C12_UpdateSetsAllButKey ==
    (builder.op = "update" /\ EntriesWhere(IsKey) # {}) =>
        /\ ListsInOrder(EntriesWhere(LAMBDA c : ~IsKey(c)))
        /\ \A i \in 1..Len(builder.query.cols) :
               \A j \in EntriesWhere(IsKey) : builder.query.cols[i] # builder.data[j].col
        /\ \A j \in EntriesWhere(IsKey) :
               /\ builder.query.primaryCol = builder.data[j].col
               /\ builder.query.params[Len(builder.query.params)] = builder.data[j].value
        /\ Len(builder.query.params) = Len(builder.query.cols) + 1
        /\ builder.query.marks = Len(builder.query.params)

\* an update built for a model whose key is mapped to another physical name
C12_Witness ==
    /\ builder.op = "update"
    /\ builder.model.tableName = "Entry"
    /\ builder.query.primaryCol = "k"
    /\ builder.query.cols = <<"value">>
    /\ builder.query.params = <<Str("b"), Str("a")>>

\* ---- C13
\* a model set was written and then read from the same path
ReadBack == store.written /\ store.got # NoValue

\* C13 as stated: what is read back is deep-equal to the model set written
C13_SnapshotRoundTrip == ReadBack => store.got = models

RECURSIVE IsJsonValue(_)
\* a value JSON text can hold as it is
IsJsonValue(v) ==
    CASE v.k \in {"null", "boolean", "string"} -> TRUE
      [] v.k = "number" -> "nonfinite" \notin DOMAIN v
      [] v.k = "array" -> \A i \in 1..Len(v.items) : IsJsonValue(v.items[i])
      [] v.k = "object" -> \A x \in DOMAIN v.props : IsJsonValue(v.props[x])
      [] OTHER -> FALSE
JsonDefaults(m) ==
    m # NoModel => \A i \in 1..Len(m.columns) : IsJsonValue(m.columns[i].defaultValue)
SameButDefault(c, d) ==
    /\ (DOMAIN c) \ {"defaultValue"} = (DOMAIN d) \ {"defaultValue"}
    /\ \A f \in (DOMAIN c) \ {"defaultValue"} : c[f] = d[f]

\* C13: a model set written to the snapshot store and read from the same path comes
\* back with the same classes, and each model with the same table name, database
\* and columns, every column equal in every field but defaultValue; a model whose
\* defaults are all JSON values comes back equal; the empty set comes back empty.
C13_RoundTripButDefaults ==
    ReadBack =>
        /\ DOMAIN store.got = DOMAIN models
        /\ \A c \in DOMAIN models :
               /\ (models[c] = NoModel) <=> (store.got[c] = NoModel)
               /\ JsonDefaults(models[c]) => store.got[c] = models[c]
               /\ models[c] # NoModel =>
                      /\ store.got[c].tableName = models[c].tableName
                      /\ store.got[c].database = models[c].database
                      /\ Len(store.got[c].columns) = Len(models[c].columns)
                      /\ \A i \in 1..Len(models[c].columns) :
                             SameButDefault(store.got[c].columns[i], models[c].columns[i])

\* a set with a mapped column and a second database, read back as it was written
C13_Witness ==
    /\ ReadBack
    /\ models.User # NoModel
    /\ models.User.tableName = "users"
    /\ models.Flag # NoModel
    /\ models.Flag.database = "aux"
    /\ store.got = models

\* ---- C14
\* the properties a declaration explicitly declares as primary key
DeclaredKeys(d) ==
    {d.decos[i].key : i \in {j \in 1..Len(d.decos) :
        d.decos[j].kind = "column" /\ Truthy(d.decos[j].data, "isPrimaryKey")}}
KeyColumns(columns) == {i \in 1..Len(columns) : Truthy(columns[i], "isPrimaryKey")}
\* every field a column decorator gave is the field of the registered column
OverridesKept(d, columns) ==
    \A j \in 1..Len(d.decos) :
        d.decos[j].kind = "column" =>
            \A i \in 1..Len(columns) :
                columns[i].name = d.decos[j].key =>
                    \A f \in DOMAIN d.decos[j].data :
                        Has(columns[i], f) /\ columns[i][f] = d.decos[j].data[f]

\* C14: a registered model has exactly one primary-key column: the explicitly
\* declared one when one was declared, otherwise (and only then) an autoincrement
\* integer column named id; and every explicit column override of the declaration
\* is in effect in the registered model.
C14_OnePrimaryKey ==
    last.stage = "reconciled" =>
        /\ Cardinality(KeyColumns(last.built.columns)) = 1
        /\ \A i \in KeyColumns(last.built.columns) :
               IF DeclaredKeys(last.decl) # {}
               THEN last.built.columns[i].name \in DeclaredKeys(last.decl)
               ELSE /\ last.built.columns[i].name = "id"
                    /\ last.built.columns[i].type = "integer"
                    /\ Truthy(last.built.columns[i], "autoIncrement")
        /\ OverridesKept(last.decl, last.built.columns)

\* ---- C15
\* C15: a row operation (findOne, findOneOptional, findMany, countWhere,
\* aggregateSelect, save, delete) called for a model that is not registered fails
\* with DBModelNotFound and executes no statement.
C15_UnregisteredModelNotFound ==
    (/\ done.op \in {"findOne", "findOneOptional", "findMany", "countWhere",
                     "aggregateSelect", "save", "delete"}
     /\ done.model = NoModel) =>
        /\ done.result = "DBModelNotFound"
        /\ done.stmts = << >>

\* ---- C22: the columns of a registered model are those of its own declaration:
\* a property ignored for another model, and the pending columns an earlier
\* failed registration left, do not remove, add or alter any of them.
AloneLoop(d, deco) ==
    ModelLoop(deco.temp, deco.ignored, Instance(d), 1, HasPrimaryKey(deco.temp))
\* the columns the class gets on an SqliteOrm that has seen no other class
DeclaredAlone(d) ==
    AloneLoop(d, ApplyDecorators(<< >>, {}, Instance(d), d.decos, 1)).temp
C22_ColumnsFromOwnDeclaration ==
    last.stage = "reconciled" => last.built.columns = DeclaredAlone(last.decl)

\* ---- C21: isProvidedTypeValid(value, column) is true exactly when the value is
\* null or undefined and the column nullable, or the value is not null, is not a
\* non-finite number, and is of the column's type (string: a string; number: a
\* number; integer: a safe integer; boolean: a boolean, 0 or 1; json: an object
\* or an array; blob: a byte buffer).  Null is rejected for every column that is
\* not nullable.
IsObjectOrArray(v) == v.k \in {"object", "array", "Map", "Buffer", "instance"}
MatchesType(v, type) ==
    CASE type = "string" -> v.k = "string"
      [] type = "number" -> v.k = "number"
      [] type = "integer" -> IsSafeInteger(v)
      [] type = "boolean" -> v.k = "boolean" \/ v \in {Num(0), Num(1)}
      [] type = "json" -> IsObjectOrArray(v)
      [] type = "blob" -> v.k = "Buffer"
GuardAccepts(v, col) ==
    \/ IsNullish(v) /\ Truthy(col, "nullable")
    \/ /\ ~IsNullish(v)
       /\ ~(v.k = "number" /\ ~IsFinite(v))
       /\ MatchesType(v, col.type)
C21_ValidExactlyWhen ==
    builder.op = "isProvidedTypeValid" =>
        (builder.query = Bool(TRUE)
            <=> GuardAccepts(builder.data[1].value, builder.data[1].col))

\* ---- C19: when a declared column has a mappedTo name and the table holds a
\* column of that name, reconciliation plans no ADD COLUMN for it, and when it is
\* the primary key of the table and of the model, reconciliation does not fail
\* with the primary-key conflict.
KeyConflict == "Cannot add a column automatically, a primary key column already exists."
MappedAndHeld(c, info) == Has(c, "mappedTo") /\ Introspected(info, c.mappedTo)
C19_MappedColumnMatched ==
    (last.stage = "reconciled" /\ last.path = "alter") =>
        \A i \in 1..Len(last.built.columns) :
            MappedAndHeld(last.built.columns[i], last.info) =>
                /\ \A s \in 1..Len(last.planned) :
                       last.planned[s].column.name # last.built.columns[i].name
                /\ (/\ Truthy(last.built.columns[i], "isPrimaryKey")
                    /\ LivePrimaryKey(last.info) = last.built.columns[i].mappedTo)
                       => last.result # KeyConflict

\* ---- C20: a registration that finds its table complete is flagged as a change
\* against the last snapshot exactly when the model is absent from the snapshot,
\* its database differs, a snapshot column is absent from the new model, a new
\* column is absent from the snapshot, or a column present in both differs in a
\* field other than defaultValue; when only a defaultValue differs it is not
\* flagged and modelsLoaded makes no model-changes backup.
ColumnsOf(model) == {model.columns[i] : i \in 1..Len(model.columns)}
Held(c, model) == \E o \in ColumnsOf(model) : PhysicalName(o) = PhysicalName(c)
FieldsDiffer(a, b) ==
    \E f \in ((DOMAIN a) \cup (DOMAIN b)) \ {"defaultValue"} :
        \/ f \notin DOMAIN a
        \/ f \notin DOMAIN b
        \/ a[f] # b[f]
StructuralChange(lastModel, builtModel) ==
    \/ lastModel = NoModel
    \/ lastModel.database # builtModel.database
    \/ \E o \in ColumnsOf(lastModel) : ~Held(o, builtModel)
    \/ \E c \in ColumnsOf(builtModel) : ~Held(c, lastModel)
    \/ \E o \in ColumnsOf(lastModel), c \in ColumnsOf(builtModel) :
           PhysicalName(o) = PhysicalName(c) /\ FieldsDiffer(o, c)
OnlyDefaultsDiffer(lastModel, builtModel) ==
    /\ ~StructuralChange(lastModel, builtModel)
    /\ \E o \in ColumnsOf(lastModel), c \in ColumnsOf(builtModel) :
           /\ PhysicalName(o) = PhysicalName(c)
           /\ "defaultValue" \in DOMAIN o
           /\ "defaultValue" \in DOMAIN c
           /\ o.defaultValue # JsonTree(c.defaultValue)
TableComplete ==
    /\ last.stage = "reconciled"
    /\ last.path = "alter"
    /\ last.result = "ok"
    /\ last.planned = NoStatements
\* modelsLoaded has run after the registration: the snapshot holds its model
SnapshotWritten == snapshot[last.cls] = JsonModel(last.built)
C20_FlaggedOnStructuralChange ==
    TableComplete =>
        /\ last.flagged <=> StructuralChange(lastModels[last.cls], last.built)
        /\ OnlyDefaultsDiffer(lastModels[last.cls], last.built) =>
               /\ ~last.flagged
               /\ SnapshotWritten => ~backupTaken

\* a registration that changed the default of a column only, and modelsLoaded
\* after it: the snapshot is rewritten, no backup is made
C20_Witness ==
    /\ TableComplete
    /\ OnlyDefaultsDiffer(lastModels[last.cls], last.built)
    /\ SnapshotWritten
    /\ snapshot[last.cls] # lastModels[last.cls]
    /\ ~backupTaken

\* ---- C17: with backups enabled, a doBackup('auto') call copies the database
\* if and only if a save or a delete has completed since the last copy made (of
\* any type), and a 'manual' or 'model-changes' call copies every time.
C17_AutoCopiesIffChanged ==
    pass.type # "none" =>
        IF pass.type = "auto" THEN pass.copied <=> pass.due ELSE pass.copied

C17_Witness ==
    /\ pass.type = "auto"
    /\ pass.due
    /\ pass.copied
    /\ done.op \in {"save", "delete"}
    /\ backupName("auto", clock) \in backupDir

\* ---- C18: after every backup pass at most backupMax entries of the backup
\* directory have a name that starts with auto-.
C18_AtMostMaxAutoBackups ==
    pass.type # "none" => Cardinality(AutoBackups(backupDir)) <= backupMax

C18_Witness ==
    /\ pass.type = "auto"
    /\ pass.unlinked
    /\ Cardinality(AutoBackups(backupDir)) = backupMax

\* ---- C16
\* is v a value of the declared type of a column: what the program may assign
OfColumnType(v, t) ==
    CASE t = "string" -> v.k = "string"
      [] t = "number" -> v.k = "number"
      [] t = "integer" -> v.k = "number" /\ "n" \in DOMAIN v
      [] t = "boolean" -> v.k = "boolean"
      [] t = "json" -> v.k \in {"object", "array", "Map", "Buffer", "instance"}
      [] t = "blob" -> v.k = "Buffer"
\* is v a stored value of a column of the type: what a save of that type writes
OfStoredType(v, t) ==
    CASE t = "string" -> v.k = "string"
      [] t = "number" -> v.k = "number"
      [] t = "integer" -> v.k = "number" /\ "n" \in DOMAIN v
      [] t = "boolean" -> v \in {Num(0), Num(1)}
      [] t = "json" -> v.k = "string"
      [] t = "blob" -> v.k = "Buffer"

\* the per-column serialize of a save rejects a value that is not of the column's type
C16_SerializeRejects ==
    (phase = "stored" /\ ~IsNullish(input) /\ ~OfColumnType(input, colType)) =>
        encoded = Throw("DBInvalidData")

\* C16: for every column type and every non-null value that is not of the column's
\* type, the per-column serialize (of a save) and the per-column deserialize (of a
\* findOne or findMany) raise DBInvalidData: no such value is stored or returned.
C16_WrongTypeRaises ==
    /\ C16_SerializeRejects
    /\ (phase = "read" /\ ~IsNullish(encoded) /\ ~OfStoredType(encoded, colType)) =>
           decoded = Throw("DBInvalidData")

\* ---- C4
AutoIncrementModel(model) == model # NoModel /\ IncrementPrimaryKey(model) > 0

\* C4: for an object of a registered model with an autoincrement primary key, made
\* by new: the save that finds it marked new runs exactly one INSERT, writes the
\* engine's lastInsertRowid into the primary-key property and clears the mark; a save
\* that finds it unmarked runs an UPDATE and no INSERT; over any sequence of saves at
\* most one INSERT is run for the object, and it is marked new exactly until then.
C4_SaveInsertsOnce ==
    /\ \A o \in Slots :
           (objects[o] # NoValue /\ AutoIncrementModel(models[objects[o].cls])) =>
               /\ inserts[o] <= 1
               /\ IsNew(objects[o]) <=> (inserts[o] = 0)
    /\ (done.op = "save" /\ done.result = "ok" /\ AutoIncrementModel(done.model)) =>
           IF done.wasNew
           THEN /\ done.stmts = <<"INSERT">>
                /\ ~IsNew(objects[done.slot])
                /\ Prop(objects[done.slot],
                        done.model.columns[IncrementPrimaryKey(done.model)].name)
                       = Num(done.rowid)
                /\ done.rowid = MaxRowid(done.before) + 1
                /\ Len(rows[done.model.tableName]) = Len(done.before) + 1
           ELSE /\ done.stmts = <<"UPDATE">>
                /\ Len(rows[done.model.tableName]) = Len(done.before)

\* a later save of an object whose first save ran the INSERT: it ran an UPDATE
C4_Witness ==
    /\ done.op = "save"
    /\ done.result = "ok"
    /\ ~done.wasNew
    /\ done.stmts = <<"UPDATE">>
    /\ AutoIncrementModel(done.model)
    /\ inserts[done.slot] = 1
    /\ Prop(objects[done.slot], "id") = Num(2)

\* ---- C5
\* the stored form of a key
StoredKey(id) == IF id.k = "boolean" THEN Num(IF id.b THEN 1 ELSE 0) ELSE id

\* a lookup by a type-valid primary key, on a registered model, that no row matches
TypeValidMiss ==
    /\ done.op \in {"findOne", "findOneOptional"}
    /\ done.model # NoModel
    /\ PrimaryKeyColumn(done.model) > 0
    /\ isProvidedTypeValid(done.arg, done.model.columns[PrimaryKeyColumn(done.model)])
    /\ \A i \in 1..Len(done.before) :
           done.before[i].vals[PhysicalName(
               done.model.columns[PrimaryKeyColumn(done.model)])] # StoredKey(done.arg)

\* C5: on a registered model whose table has no matching row, findOne by a type-valid
\* primary key raises DBNotFound, and findOneOptional returns a fresh instance, still
\* marked new, and raises nothing.
C5_NotFoundOnMiss ==
    TypeValidMiss =>
        IF done.op = "findOne" THEN done.result = "DBNotFound"
        ELSE /\ done.result = "ok"
             /\ done.returned = NewObject(done.cls)
             /\ IsNew(done.returned)

\* ---- C6
\* JSON text cannot hold a non-finite number, and undefined is stored as null:
\* the values a column round trip can be asked to preserve.
RECURSIVE Storable(_)
Storable(v) ==
    CASE v.k = "number" -> "n" \in DOMAIN v
      [] v.k = "undefined" -> FALSE
      [] v.k = "array" -> \A i \in 1..Len(v.items) : Storable(v.items[i])
      [] v.k \in {"object", "instance"} -> \A x \in DOMAIN v.props : Storable(v.props[x])
      [] v.k = "Map" -> \A i \in 1..Len(v.entries) :
                            Storable(v.entries[i][1]) /\ Storable(v.entries[i][2])
      [] OTHER -> TRUE

\* C6: for every column type and every value the column's serialize accepts
\* (null included), deserialize(serialize(v)) equals v.
C6_ColumnRoundTrip ==
    (phase = "loaded" /\ (input = Null \/ Storable(input))) => decoded = input

\* ---- C7
Restrict(f, K) == [x \in (DOMAIN f) \cap K |-> f[x]]

\* C7 as claimed: what the round trip of v is said to give back: v itself, and
\* for an instance of a registered class that instance without its ignored
\* properties.
ClaimedRoundTrip(v) ==
    IF v.k = "instance" /\ FindClassOf(v) # NoValue
    THEN Inst(v.cls, Restrict(v.props, (DOMAIN v.props) \ FindClassOf(v).ignoredProps))
    ELSE v

\* an instance of an unregistered class is outside the claim
InClaim(v) == v.k = "instance" => FindClassOf(v) # NoValue

\* C7 (original): dejsonify(jsonify(v)) is deep-equal to v for v a plain
\* object, an array of mixed primitives, a Map with non-string keys, a Buffer
\* or an instance of a registered class (less its ignored property).
C7_TopLevelRoundTrip ==
    (phase = "decoded" /\ input \in RoundTripValues /\ InClaim(input))
        => decoded = ClaimedRoundTrip(input)

\* what the decode gives for a value in a value position
DecodedValue(v) ==
    IF v.k = "instance" /\ FindClassOf(v) # NoValue
    THEN Inst(v.cls, Overlay(ClassDefaults[v.cls],
                             Restrict(v.props, (DOMAIN v.props) \ FindClassOf(v).ignoredProps)))
    ELSE v

\* C7 (amended): a plain object or an array of mixed primitives round-trips as
\* the argument of jsonify; a Map, a Buffer and an instance of a registered
\* class round-trip as a property of a plain object or an element of an array;
\* the decoded instance is of the same class and carries the instance's
\* non-ignored properties over what the class's constructor sets.
C7_RoundTrip ==
    /\ (phase = "decoded" /\ input \in PlainObjects \cup MixedArrays) => decoded = input
    /\ (phase = "decoded" /\ input.k = "object" /\ DOMAIN input.props = {"a"}
            /\ input.props.a \in RoundTripValues /\ InClaim(input.props.a))
          => decoded = AsProperty(DecodedValue(input.props.a))
    /\ (phase = "decoded" /\ input.k = "array" /\ Len(input.items) = 1
            /\ input.items[1] \in RoundTripValues /\ InClaim(input.items[1]))
          => decoded = AsElement(DecodedValue(input.items[1]))

C7_Witness ==
    /\ phase = "decoded"
    /\ Len(serializableClasses) = 2
    /\ input = AsProperty(MapV(<< <<Obj([a |-> Num(1)]), Str("x")>>,
                                  <<Num(1), Arr(<<Num(1)>>)>> >>))
    /\ decoded = input

\* ---- C8
\* an untagged object occurs in a value position of the payload: as a
\* property value or an array element, directly or inside the data of an
\* object or Map envelope
RECURSIVE ValueHasUntagged(_)
ContainerHasUntagged(c) ==
    CASE c.k = "array" -> \E i \in 1..Len(c.items) : ValueHasUntagged(c.items[i])
      [] c.k = "object" -> \E x \in DOMAIN c.props : ValueHasUntagged(c.props[x])
      [] OTHER -> FALSE
ValueHasUntagged(v) ==
    CASE v.k = "array" -> ContainerHasUntagged(v)
      [] v.k = "object" ->
            IF IsNullish(TypeOfEnvelope(v)) THEN TRUE
            ELSE IF TypeOfEnvelope(v) \in {Str("Map"), Str("object")}
            THEN ContainerHasUntagged(DataOfEnvelope(v))
            ELSE FALSE
      [] OTHER -> FALSE

IsUntagged(v) == v.k = "object" /\ IsNullish(TypeOfEnvelope(v))

\* C8 (original): decoding an untagged object fails when compatMode is false,
\* at top level as well as nested.
C8_UntaggedFailsAnywhere ==
    (phase = "decoded" /\ input = NoValue /\ ~compatMode
        /\ (IsUntagged(encoded) \/ ContainerHasUntagged(encoded)))
        => IsThrow(decoded)

\* C8 (amended): an untagged object in a value position (a property value or
\* an array element, at any depth) makes the decode fail when compatMode is
\* false; with compatMode true the same payload decodes, a payload untagged
\* all the way down to itself; the object handed to dejsonify is never asked
\* for a tag, so an untagged top-level object of primitives decodes in both
\* modes.
C8_UntaggedNested ==
    /\ (phase = "decoded" /\ ~compatMode /\ ContainerHasUntagged(encoded))
          => IsThrow(decoded)
    /\ (phase = "decoded" /\ compatMode /\ encoded \in LegacyNested)
          => decoded = encoded
    /\ (phase = "decoded" /\ IsUntagged(encoded)
            /\ \A x \in DOMAIN encoded.props : encoded.props[x] \in LegacyLeaf)
          => decoded = encoded

C8_Witness ==
    /\ phase = "decoded"
    /\ compatMode
    /\ encoded = Obj([a |-> Obj([a |-> Obj([b |-> Str("x")])]), b |-> Num(1)])
    /\ decoded = encoded

\* ---- C9
\* a custom envelope naming no registered class occurs in a value position
RECURSIVE ValueHasUnregistered(_)
ContainerHasUnregistered(c) ==
    CASE c.k = "array" -> \E i \in 1..Len(c.items) : ValueHasUnregistered(c.items[i])
      [] c.k = "object" -> \E x \in DOMAIN c.props : ValueHasUnregistered(c.props[x])
      [] OTHER -> FALSE
ValueHasUnregistered(v) ==
    CASE v.k = "array" -> ContainerHasUnregistered(v)
      [] v.k = "object" ->
            LET type == TypeOfEnvelope(v)
            IN  IF IsNullish(type) THEN ContainerHasUnregistered(v)
                ELSE IF type \in {Str("Map"), Str("object")}
                THEN ContainerHasUnregistered(DataOfEnvelope(v))
                ELSE IF type = Str("Buffer") THEN FALSE
                ELSE IF \E c \in ClassNames : type = Str(CustomTag[c])
                THEN \/ \A i \in 1..Len(serializableClasses) :
                            Str(CustomTag[serializableClasses[i].classRef]) # type
                     \/ ContainerHasUnregistered(DataOfEnvelope(v))
                ELSE ContainerHasUnregistered(v)
      [] OTHER -> FALSE

\* C9: decoding a value tagged custom-<Name> with no class <Name> registered
\* raises an error, with compatMode true as with compatMode false; nothing
\* decoded is returned.
C9_UnregisteredCustomFails ==
    (phase = "decoded" /\ ContainerHasUnregistered(encoded)) => IsThrow(decoded)

C9_Witness ==
    /\ phase = "decoded"
    /\ compatMode
    /\ serializableClasses # << >>
    /\ \A i \in 1..Len(serializableClasses) : serializableClasses[i].classRef # "Bar"
    /\ encoded = Obj([a |-> Obj([b |-> Obj([data |-> Obj([a |-> Num(1)]),
                                           type |-> Str("custom-Bar")])])])
    /\ IsThrow(decoded)

\* ---- C10
\* C10: jsonify of a function, a symbol or a bigint raises an error.
C10_NonSerializableThrows ==
    (phase = "encoded" /\ input \in NonSerializable) => IsThrow(encoded)

====
